---- MODULE Spec2Model ----
(***************************************************************************)
(* A model of the lazy (hybrid) DFA of regex-automata: its cache, the      *)
(* powerset step that fills it, the forward scan that drives it, and the   *)
(* meta engine's fallback around it.                                       *)
(***************************************************************************)
EXTENDS Integers, Sequences, FiniteSets, TLC

VARIABLES
    inert,      \* the InertDFA: cache_capacity, minimum_cache_clear_count, quitset
    cache,      \* the Cache the searches share
    srch,       \* the forward search in progress (find_fwd_imp's locals)
    ref,        \* the same search run against a cache created for it alone
    last,       \* what the last cache operation was given and what it returned
    meta,       \* the meta engine's Core::try_search in progress
    it,         \* the iterator of util/iter.rs and its Search
    prog,       \* what a DFA is built from: NFA, match kind, ID space
    ov,         \* the overlapping search in progress and its OverlappingState
    det,        \* the Determinizer, the dense DFA it builds, and its Minimizer
    one,        \* the one-pass DFA's InternalBuilder and the OnePass it builds
    sdfa        \* the sparse DFA, the bytes it is written to and what they are read as

vars == <<inert, cache, srch, ref, last, meta, it, prog, ov, det, one, sdfa>>

(***************************************************************************)
(* Bounds of the model.                                                    *)
(***************************************************************************)
\* Bytes are 0 .. ByteCount-1 (a byte universe narrower than u8).
ByteCount == 16
\* Longest span a search scans.
MaxLen == 4
\* Searches run on one cache value, resets included.
MaxSearches == 2
\* Longest span the meta engine is asked to search.
MaxSpan == 2
\* Most matches a haystack of the meta engine holds.
MaxMatches == 2
\* Deepest nesting of clear_cache calls before the call stack is exhausted.
MaxCallDepth == 3

(***************************************************************************)
(* Sizes and program constants.                                            *)
(***************************************************************************)
MIN_STATES == 5
ID_SIZE == 4
STATE_SIZE == 16
NFA_ID_SIZE == 4
StartCount == 4
\* The largest untagged lazy state ID: an ID space of exactly eight states
\* at this stride, as on a 16-bit target (2047) with a stride of 256, and
\* one of thirty-two states, which the searches of one pattern never fill.
SmallIDSpace == 255
WideIDSpace == 1023
LazyStateID_MAX == prog.id_max
\* Vec's first allocation for the determinizer's stack.
StackFirstCap == 4

None == [kind |-> "None"]

Max(a, b) == IF a >= b THEN a ELSE b

RECURSIVE Pow2(_)
Pow2(k) == IF k = 0 THEN 1 ELSE 2 * Pow2(k - 1)

(***************************************************************************)
(* The alphabet: byte_classes(false), so every byte is its own class and   *)
(* the end-of-input unit is the class after the last byte.                 *)
(***************************************************************************)
Bytes == 0 .. (ByteCount - 1)
EOI == ByteCount
alphabet_len == ByteCount + 1
stride2 == CHOOSE k \in 0 .. 9 :
    /\ Pow2(k) >= alphabet_len
    /\ (k = 0 \/ Pow2(k - 1) < alphabet_len)
stride == Pow2(stride2)
classes_get(b) == b
representatives == 0 .. EOI

(***************************************************************************)
(* The Thompson NFA of the unanchored pattern a[ab][ab] over bytes a = 1   *)
(* and b = 2: state 1 is the unanchored start, state 3 the anchored start. *)
(***************************************************************************)
NFA_a_ab_ab == <<
    [kind |-> "Union", alternates |-> <<3, 2>>],
    [kind |-> "Range", start |-> 0, end |-> ByteCount - 1, next |-> 1],
    [kind |-> "Range", start |-> 1, end |-> 1, next |-> 4],
    [kind |-> "Range", start |-> 1, end |-> 2, next |-> 5],
    [kind |-> "Range", start |-> 1, end |-> 2, next |-> 6],
    [kind |-> "Match"] >>
(***************************************************************************)
(* The Thompson NFA of the unanchored pattern Samwise|Sam over the bytes   *)
(* S = 4, a = 1, m = 5, w = 6, i = 7, s = 8, e = 9: state 3 is the         *)
(* alternation, state 11 the Match state of pattern 0.                     *)
(***************************************************************************)
Letter(c) ==
    CASE c = "S" -> 4 [] c = "a" -> 1 [] c = "m" -> 5 [] c = "w" -> 6
      [] c = "i" -> 7 [] c = "s" -> 8 [] c = "e" -> 9
Byte(c, next) == [kind |-> "Range", start |-> Letter(c), end |-> Letter(c), next |-> next]
NFA_Samwise_Sam == <<
    [kind |-> "Union", alternates |-> <<3, 2>>],
    [kind |-> "Range", start |-> 0, end |-> ByteCount - 1, next |-> 1],
    [kind |-> "Union", alternates |-> <<4, 12>>],
    Byte("S", 5), Byte("a", 6), Byte("m", 7), Byte("w", 8), Byte("i", 9),
    Byte("s", 10), Byte("e", 11),
    [kind |-> "Match"],
    Byte("S", 13), Byte("a", 14), Byte("m", 11) >>

\* What a lazy DFA is built from, and the ID space of its target.
Program_a_ab_ab ==
    [nfa |-> NFA_a_ab_ab, match_kind |-> "LeftmostFirst",
     starts_for_each_pattern |-> FALSE, id_max |-> SmallIDSpace]
Program_Samwise_Sam ==
    [nfa |-> NFA_Samwise_Sam, match_kind |-> "All",
     starts_for_each_pattern |-> FALSE, id_max |-> WideIDSpace]
\* a[ab][ab] with MatchKind::All.
Program_a_ab_ab_All ==
    [Program_a_ab_ab EXCEPT !.match_kind = "All", !.id_max = WideIDSpace]
\* a[ab][ab] with Config::starts_for_each_pattern(true).
Program_with_pattern_starts ==
    [Program_a_ab_ab EXCEPT !.starts_for_each_pattern = TRUE, !.id_max = WideIDSpace]
NFA == prog.nfa
match_kind == prog.match_kind
starts_for_each_pattern == prog.starts_for_each_pattern
PatternID(id) == [kind |-> "PatternID", id |-> id]
\* The anchored start of a pattern: in both NFAs, of the only pattern.
nfa_start_pattern(pid) == 3
nfa_len == Len(NFA)
nfa_start_unanchored == 1
match_len == 1

Reverse(s) == [i \in 1 .. Len(s) |-> s[Len(s) + 1 - i]]
SeqContains(s, x) == \E i \in 1 .. Len(s) : s[i] = x

(***************************************************************************)
(* epsilon_closure: depth first, first alternate first, into an ordered    *)
(* set.  Closure pops the stack, Walk is the inner loop.                   *)
(***************************************************************************)
RECURSIVE Closure(_, _), Walk(_, _, _)
Closure(stack, set) ==
    IF stack = <<>> THEN set
    ELSE Walk(stack[Len(stack)], SubSeq(stack, 1, Len(stack) - 1), set)
Walk(id, stack, set) ==
    IF SeqContains(set, id) THEN Closure(stack, set)
    ELSE LET set1 == Append(set, id)
         IN IF NFA[id].kind = "Union"
            THEN IF NFA[id].alternates = <<>> THEN Closure(stack, set1)
                 ELSE Walk(NFA[id].alternates[1],
                           stack \o Reverse(Tail(NFA[id].alternates)), set1)
            ELSE Closure(stack, set1)
epsilon_closure(start, set) ==
    IF NFA[start].kind # "Union"
    THEN (IF SeqContains(set, start) THEN set ELSE Append(set, start))
    ELSE Closure(<<start>>, set)

\* The NFA states a DFA state keeps: every one that is not a pure epsilon.
add_nfa_states(set) == SelectSeq(set, LAMBDA id : NFA[id].kind # "Union")

State_dead == [nfa_states |-> <<>>, is_match |-> FALSE, look |-> "none"]

\* Bytes of heap a State uses: three flag bytes, the pattern IDs of a match
\* state, and one varint byte per NFA state ID.
State_memory_usage(state) ==
    3 + (IF state.is_match THEN 4 + 4 * match_len ELSE 0) + Len(state.nfa_states)

(***************************************************************************)
(* determinize::next: one powerset step.  The new state is a match state   *)
(* when the old one holds a Match NFA state (matches are delayed by one    *)
(* unit); under leftmost-first semantics the NFA states after the first    *)
(* Match are not followed, under MatchKind::All they are.                  *)
(***************************************************************************)
RECURSIVE NextFrom(_, _, _, _)
NextFrom(ids, i, unit, acc) ==
    IF i > Len(ids) THEN acc
    ELSE LET s == NFA[ids[i]]
         IN CASE s.kind = "Match" ->
                    IF match_kind = "All"
                    THEN NextFrom(ids, i + 1, unit, [acc EXCEPT !.is_match = TRUE])
                    ELSE [acc EXCEPT !.is_match = TRUE]
              [] s.kind = "Range" ->
                    NextFrom(ids, i + 1, unit,
                        IF unit # EOI /\ s.start <= unit /\ unit <= s.end
                        THEN [acc EXCEPT !.set = epsilon_closure(s.next, @)]
                        ELSE acc)
              [] OTHER -> NextFrom(ids, i + 1, unit, acc)
determinize_next(state, unit) ==
    LET acc == NextFrom(state.nfa_states, 1, unit, [set |-> <<>>, is_match |-> FALSE])
    IN [nfa_states |-> add_nfa_states(acc.set), is_match |-> acc.is_match,
        look |-> "none"]

\* Whether the step pushes onto the determinizer's stack (a Union is closed).
next_uses_stack(state, unit) ==
    \E i \in 1 .. Len(state.nfa_states) :
        LET s == NFA[state.nfa_states[i]]
        IN /\ s.kind = "Range"
           /\ unit # EOI /\ s.start <= unit /\ unit <= s.end
           /\ NFA[s.next].kind = "Union"

(***************************************************************************)
(* Start kinds, by the byte before the search's start.                     *)
(***************************************************************************)
StartKinds == <<"NonWordByte", "WordByte", "Text", "Line">>
Start_as_usize(kind) == (CHOOSE i \in 1 .. StartCount : StartKinds[i] = kind) - 1
start_state_of(nfa_start_id, kind) ==
    [nfa_states |-> add_nfa_states(epsilon_closure(nfa_start_id, <<>>)),
     is_match |-> FALSE, look |-> kind]

(***************************************************************************)
(* LazyStateID: an offset into the transition table, tagged in the bits    *)
(* above LazyStateID_MAX.                                                  *)
(***************************************************************************)
MASK_MATCH == LazyStateID_MAX + 1
MASK_START == 2 * MASK_MATCH
MASK_QUIT == 4 * MASK_MATCH
MASK_DEAD == 8 * MASK_MATCH
MASK_UNKNOWN == 16 * MASK_MATCH
HasBit(id, mask) == (id \div mask) % 2 = 1
SetBit(id, mask) == IF HasBit(id, mask) THEN id ELSE id + mask
as_usize_untagged(id) == id % MASK_MATCH
is_tagged(id) == id > LazyStateID_MAX
is_unknown(id) == HasBit(id, MASK_UNKNOWN)
is_dead(id) == HasBit(id, MASK_DEAD)
is_quit(id) == HasBit(id, MASK_QUIT)
is_start(id) == HasBit(id, MASK_START)
is_match(id) == HasBit(id, MASK_MATCH)
to_match(id) == SetBit(id, MASK_MATCH)
to_start(id) == SetBit(id, MASK_START)
LazyStateID_new_ok(n) == n <= LazyStateID_MAX

unknown_id == SetBit(0, MASK_UNKNOWN)
dead_id == SetBit(Pow2(stride2), MASK_DEAD)
quit_id == SetBit(2 * Pow2(stride2), MASK_QUIT)
is_sentinel(id) == id = unknown_id \/ id = dead_id \/ id = quit_id

\* The closures add_state is given for the new ID.
idmap_apply(idmap, id) ==
    CASE idmap = "unknown" -> SetBit(id, MASK_UNKNOWN)
      [] idmap = "dead" -> SetBit(id, MASK_DEAD)
      [] idmap = "quit" -> SetBit(id, MASK_QUIT)
      [] idmap = "start" -> to_start(id)
      [] OTHER -> id

(***************************************************************************)
(* The Cache.  Its fields are the code's; depth, n_clears, at_clear,       *)
(* max_add and tried record, for the operation in progress, how deep       *)
(* clear_cache is nested, how often try_clear_cache cleared, the cache as  *)
(* clear_cache last left it, the largest memory_usage() an add_state       *)
(* returned at and the last try_clear_cache call; clears counts the clears *)
(* try_clear_cache made since the cache was created or reset.              *)
(***************************************************************************)
Ok(c, id) == [c |-> c, res |-> "ok", id |-> id]
Err(c) == [c |-> c, res |-> "err", id |-> 0]
Panic(c) == [c |-> c, res |-> "panic", id |-> 0]

EmptyMap == [s \in {} |-> 0]
MapInsert(m, k, v) == [s \in (DOMAIN m) \cup {k} |-> IF s = k THEN v ELSE m[s]]

Cache_empty ==
    [trans |-> <<>>, starts |-> <<>>, states |-> <<>>, states_to_id |-> EmptyMap,
     stack_cap |-> 0, scratch_cap |-> 0, builder_cap |-> 0,
     state_saver |-> None, memory_usage_state |-> 0, clear_count |-> 0,
     depth |-> 0, n_clears |-> 0, at_clear |-> None, max_add |-> 0,
     tried |-> None, clears |-> 0]

\* SparseSets::memory_usage: two sets, each a dense and a sparse array of
\* nfa.len() NFA state IDs.
sparses_memory_usage == 2 * 2 * nfa_len * NFA_ID_SIZE

memory_usage(c) ==
    Len(c.trans) * ID_SIZE
    + Len(c.starts) * ID_SIZE
    + Len(c.states) * STATE_SIZE
    + Cardinality(DOMAIN c.states_to_id) * (STATE_SIZE + ID_SIZE)
    + sparses_memory_usage
    + c.stack_cap * ID_SIZE
    + c.scratch_cap
    + c.memory_usage_state

\* Counting nothing for the state to be added.
memory_usage_for_no_more_state(state_heap_size) == 0 * state_heap_size

memory_usage_for_one_more_state(state_heap_size) ==
    stride * ID_SIZE + STATE_SIZE + (STATE_SIZE + ID_SIZE) + state_heap_size

state_fits_in_cache(c, state) ==
    memory_usage(c) + memory_usage_for_one_more_state(State_memory_usage(state))
        <= inert.cache_capacity

\* `let x = v; F(x)`: v is computed once.
Let(v, F(_)) == CHOOSE y \in {F(x) : x \in {v}} : TRUE
\* `F(r?)`: an error or a panic of r is what the caller returns.
Try(r, F(_)) == Let(r, LAMBDA x : IF x.res = "ok" THEN F(x) ELSE x)
\* `F(r.unwrap())`
Unwrap(r, F(_)) == Let(r, LAMBDA x : IF x.res = "ok" THEN F(x) ELSE Panic(x.c))

is_valid(c, id) ==
    /\ as_usize_untagged(id) < Len(c.trans)
    /\ as_usize_untagged(id) % stride = 0

set_transition(c, from, unit, to) ==
    IF ~is_valid(c, from) \/ ~is_valid(c, to) THEN Panic(c)
    ELSE Ok([c EXCEPT !.trans[as_usize_untagged(from) + classes_get(unit) + 1] = to], to)

set_all_transitions(c, from, to) ==
    IF ~is_valid(c, from) \/ ~is_valid(c, to) THEN Panic(c)
    ELSE Let(as_usize_untagged(from), LAMBDA row :
           Ok([c EXCEPT !.trans =
                 [i \in 1 .. Len(@) |->
                     IF (i - 1) - row \in representatives THEN to ELSE @[i]]], to))

RECURSIVE set_quit_transitions(_, _, _)
set_quit_transitions(c, id, quit) ==
    IF quit = {} THEN Ok(c, id)
    ELSE Let(CHOOSE x \in quit : TRUE, LAMBDA b :
           Try(set_transition(c, id, b, quit_id), LAMBDA r :
             set_quit_transitions(r.c, id, quit \ {b})))

get_state_builder(c) == [c EXCEPT !.builder_cap = c.scratch_cap, !.scratch_cap = 0]
put_state_builder(c, state) ==
    [c EXCEPT !.scratch_cap = Max(c.builder_cap, State_memory_usage(state)),
              !.builder_cap = 0]

save_state(c, id) ==
    [c EXCEPT !.state_saver =
        [kind |-> "ToSave", id |-> id,
         state |-> c.states[(as_usize_untagged(id) \div stride) + 1]]]

RECURSIVE add_state(_, _, _), try_clear_cache(_), clear_cache(_), init_cache(_),
          next_state_id(_)

next_state_id(c) ==
    IF LazyStateID_new_ok(Len(c.trans)) THEN Ok(c, Len(c.trans))
    ELSE Try(try_clear_cache(c), LAMBDA r :
           IF LazyStateID_new_ok(Len(r.c.trans)) THEN Ok(r.c, Len(r.c.trans))
           ELSE Panic(r.c))

add_state(c, state, idmap) ==
    Let(memory_usage(c) + memory_usage_for_one_more_state(State_memory_usage(state)),
        LAMBDA required_cap :
    Try(IF required_cap > inert.cache_capacity THEN try_clear_cache(c) ELSE Ok(c, 0),
        LAMBDA r1 :
    Try(next_state_id(r1.c), LAMBDA r2 :
    Let(IF state.is_match THEN to_match(idmap_apply(idmap, r2.id))
        ELSE idmap_apply(idmap, r2.id), LAMBDA id :
    Let([r2.c EXCEPT !.trans = @ \o [i \in 1 .. stride |-> unknown_id]], LAMBDA c3 :
    Try(IF inert.quitset # {} /\ ~is_sentinel(id)
        THEN set_quit_transitions(c3, id, inert.quitset) ELSE Ok(c3, id), LAMBDA r4 :
    Let([r4.c EXCEPT !.memory_usage_state = @ + State_memory_usage(state),
                     !.states = Append(@, state),
                     !.states_to_id = MapInsert(@, state, id)], LAMBDA c5 :
        Ok([c5 EXCEPT !.max_add = Max(@, memory_usage(c5))], id))))))))

\* What a try_clear_cache call found and did, for the properties about it.
Tried(c, gave_up) ==
    [kind |-> "Tried", clear_count |-> c.clear_count, gave_up |-> gave_up]

\* try_clear_cache with the bound ignored.
try_clear_cache_unbounded(c) ==
    Try(clear_cache(c), LAMBDA r :
      [r EXCEPT !.c.n_clears = @ + 1, !.c.clears = @ + 1,
                !.c.tried = Tried(c, FALSE)])

\* try_clear_cache giving up only above the bound.
try_clear_cache_above(c) ==
    IF inert.minimum_cache_clear_count # None
       /\ c.clear_count > inert.minimum_cache_clear_count.count
    THEN Err([c EXCEPT !.tried = Tried(c, TRUE)])
    ELSE Try(clear_cache(c), LAMBDA r :
           [r EXCEPT !.c.n_clears = @ + 1, !.c.clears = @ + 1,
                     !.c.tried = Tried(c, FALSE)])

try_clear_cache(c) ==
    IF inert.minimum_cache_clear_count # None
       /\ c.clear_count >= inert.minimum_cache_clear_count.count
    THEN Err([c EXCEPT !.tried = Tried(c, TRUE)])
    ELSE Try(clear_cache(c), LAMBDA r :
           [r EXCEPT !.c.n_clears = @ + 1, !.c.clears = @ + 1,
                     !.c.tried = Tried(c, FALSE)])

\* The cache as a clear leaves it, for the properties that speak of that moment.
Cleared(c) ==
    [c EXCEPT !.depth = @ - 1,
              !.at_clear = [kind |-> "Cleared", starts |-> c.starts, trans |-> c.trans,
                            states |-> c.states, states_to_id |-> c.states_to_id,
                            saved |-> c.state_saver.kind = "Saved"]]

\* clear_cache leaving the start table as it was.
clear_cache_keeping_starts(c) ==
    IF c.depth >= MaxCallDepth THEN Panic(c)
    ELSE
    Let([c EXCEPT !.trans = <<>>, !.states = <<>>,
                  !.states_to_id = EmptyMap, !.memory_usage_state = 0,
                  !.clear_count = @ + 1, !.depth = @ + 1], LAMBDA c1 :
    Unwrap(init_cache(c1), LAMBDA r2 :
    Let([r2.c EXCEPT !.state_saver = None, !.starts = c.starts], LAMBDA c3 :
      IF r2.c.state_saver.kind # "ToSave" THEN Ok(Cleared(c3), 0)
      ELSE Unwrap(add_state(c3, r2.c.state_saver.state,
                            IF is_start(r2.c.state_saver.id) THEN "start" ELSE "id"),
                  LAMBDA r4 :
             Ok(Cleared([r4.c EXCEPT !.state_saver =
                            [kind |-> "Saved", id |-> r4.id]]), 0)))))

clear_cache(c) ==
    IF c.depth >= MaxCallDepth THEN Panic(c)
    ELSE
    Let([c EXCEPT !.trans = <<>>, !.starts = <<>>, !.states = <<>>,
                  !.states_to_id = EmptyMap, !.memory_usage_state = 0,
                  !.clear_count = @ + 1, !.depth = @ + 1], LAMBDA c1 :
    Unwrap(init_cache(c1), LAMBDA r2 :
    Let(r2.c.state_saver, LAMBDA saver :
    Let([r2.c EXCEPT !.state_saver = None], LAMBDA c3 :
      IF saver.kind # "ToSave" THEN Ok(Cleared(c3), 0)
      ELSE IF is_sentinel(saver.id) THEN Panic(c3)
      ELSE Unwrap(add_state(c3, saver.state,
                            IF is_start(saver.id) THEN "start" ELSE "id"), LAMBDA r4 :
             Ok(Cleared([r4.c EXCEPT !.state_saver =
                            [kind |-> "Saved", id |-> r4.id]]), 0))))))

\* The start table: a group of Start::count() entries for the searches of
\* any pattern, and one for each pattern if starts_for_each_pattern.
starts_len ==
    IF starts_for_each_pattern THEN StartCount + StartCount * match_len
    ELSE StartCount

\* init_cache leaving the dead state's transitions as add_state made them.
init_cache_without_dead_loop(c) ==
    Let([c EXCEPT !.starts = @ \o [i \in 1 .. starts_len |-> unknown_id]], LAMBDA c1 :
    Unwrap(add_state(c1, State_dead, "unknown"), LAMBDA r1 :
    Unwrap(add_state(r1.c, State_dead, "dead"), LAMBDA r2 :
    Unwrap(add_state(r2.c, State_dead, "quit"), LAMBDA r3 :
      IF r1.id # unknown_id \/ r2.id # dead_id \/ r3.id # quit_id THEN Panic(r3.c)
      ELSE
    Try(set_all_transitions(r3.c, r1.id, r1.id), LAMBDA t1 :
    Try(set_all_transitions(t1.c, r3.id, r3.id), LAMBDA t3 :
      Ok([t3.c EXCEPT !.states_to_id = MapInsert(@, State_dead, r2.id)], 0)))))))
init_cache(c) ==
    Let([c EXCEPT !.starts = @ \o [i \in 1 .. starts_len |-> unknown_id]], LAMBDA c1 :
    Unwrap(add_state(c1, State_dead, "unknown"), LAMBDA r1 :
    Unwrap(add_state(r1.c, State_dead, "dead"), LAMBDA r2 :
    Unwrap(add_state(r2.c, State_dead, "quit"), LAMBDA r3 :
      IF r1.id # unknown_id \/ r2.id # dead_id \/ r3.id # quit_id THEN Panic(r3.c)
      ELSE
    Try(set_all_transitions(r3.c, r1.id, r1.id), LAMBDA t1 :
    Try(set_all_transitions(t1.c, r2.id, r2.id), LAMBDA t2 :
    Try(set_all_transitions(t2.c, r3.id, r3.id), LAMBDA t3 :
      Ok([t3.c EXCEPT !.states_to_id = MapInsert(@, State_dead, r2.id)], 0))))))))

reset_cache(c) ==
    Try(clear_cache([c EXCEPT !.state_saver = None]), LAMBDA r :
      [r EXCEPT !.c.clear_count = 0, !.c.clears = 0])

Cache_new == init_cache(Cache_empty)

(***************************************************************************)
(* Building the InertDFA from a Config.                                    *)
(***************************************************************************)
DEFAULT_CACHE_CAPACITY == 2097152

\* The minimum capacity computed for two states where MIN_STATES are needed.
minimum_cache_capacity_for_two ==
    LET sparses == 2 * nfa_len * NFA_ID_SIZE
        trans == 2 * stride * ID_SIZE
        starts == starts_len * ID_SIZE
        max_state_size == 3 + 4 + (match_len * 4) + (nfa_len * 5)
        states == 2 * (STATE_SIZE + max_state_size)
        states_to_sid == states + (2 * ID_SIZE)
        stack == nfa_len * NFA_ID_SIZE
        scratch_state_builder == max_state_size
    IN trans + starts + states + states_to_sid + sparses + stack
       + scratch_state_builder

minimum_cache_capacity ==
    LET sparses == 2 * nfa_len * NFA_ID_SIZE
        trans == MIN_STATES * stride * ID_SIZE
        starts == starts_len * ID_SIZE
        max_state_size == 3 + 4 + (match_len * 4) + (nfa_len * 5)
        states == MIN_STATES * (STATE_SIZE + max_state_size)
        states_to_sid == states + (MIN_STATES * ID_SIZE)
        stack == nfa_len * NFA_ID_SIZE
        scratch_state_builder == max_state_size
    IN trans + starts + states + states_to_sid + sparses + stack
       + scratch_state_builder

minimum_lazy_state_id_ok == LazyStateID_new_ok((MIN_STATES - 1) * stride)

get_cache_capacity(config) ==
    IF config.cache_capacity = None THEN DEFAULT_CACHE_CAPACITY
    ELSE config.cache_capacity.bytes

InertDFA_new(config) ==
    LET min_cache == minimum_cache_capacity
        given == get_cache_capacity(config)
        built == /\ (given >= min_cache \/ config.skip_cache_capacity_check)
                 /\ minimum_lazy_state_id_ok
    IN [config |-> config, built |-> built,
        cache_capacity |-> IF given < min_cache THEN min_cache ELSE given,
        minimum_cache_clear_count |-> config.minimum_cache_clear_count,
        quitset |-> config.quitset]

(***************************************************************************)
(* The DFA's transition function and start states.                         *)
(***************************************************************************)
\* StateSaver::take_saved, then the transition the step was for.
take_saved_and_set(c, current, save, unit, next) ==
    IF save /\ c.state_saver.kind = "None" THEN Panic(c)
    ELSE Let(IF save THEN c.state_saver.id ELSE current, LAMBDA from :
         Try(set_transition(IF save THEN [c EXCEPT !.state_saver = None] ELSE c,
                            from, unit, next), LAMBDA r :
           Ok(r.c, next)))

\* add_builder_state without the lookup in states_to_id.
add_builder_state_always_adding(c, state, idmap) ==
    Let(add_state(c, state, idmap), LAMBDA r :
      [r EXCEPT !.c = put_state_builder(r.c, state)])

add_builder_state(c, state, idmap) ==
    IF state \in DOMAIN c.states_to_id
    THEN Ok(put_state_builder(c, state), c.states_to_id[state])
    ELSE Let(add_state(c, state, idmap), LAMBDA r :
           [r EXCEPT !.c = put_state_builder(r.c, state)])

cache_next_state(c, current, unit) ==
    Let(c.states[(as_usize_untagged(current) \div stride) + 1], LAMBDA from :
    Let(determinize_next(from, unit), LAMBDA builder :
    Let([get_state_builder(c) EXCEPT !.stack_cap =
           IF next_uses_stack(from, unit) THEN Max(@, StackFirstCap) ELSE @],
        LAMBDA c0 :
    Let(~state_fits_in_cache(c0, builder), LAMBDA save :
    Try(add_builder_state(IF save THEN save_state(c0, current) ELSE c0,
                          builder, "id"), LAMBDA r :
      take_saved_and_set(r.c, current, save, unit, r.id))))))

\* next_state returning what the transition table holds, unknown or not.
next_state_from_table(c, current, input) ==
    Ok(c, c.trans[as_usize_untagged(current) + classes_get(input) + 1])

next_state(c, current, input) ==
    Let(c.trans[as_usize_untagged(current) + classes_get(input) + 1], LAMBDA sid :
      IF ~is_unknown(sid) THEN Ok(c, sid)
      ELSE cache_next_state(c, current, input))

next_eoi_state(c, current) ==
    Let(c.trans[as_usize_untagged(current) + EOI + 1], LAMBDA sid :
      IF ~is_unknown(sid) THEN Ok(c, sid)
      ELSE cache_next_state(c, current, EOI))

\* Index into the start table; pattern_id is None or a PatternID.
start_table_index(pattern_id, start) ==
    IF pattern_id = None THEN Start_as_usize(start)
    ELSE StartCount + (StartCount * pattern_id.id) + Start_as_usize(start)
\* get_cached_start asserts pid < pattern_count and indexes the table.
start_lookup_panics(c, pattern_id, start) ==
    \/ pattern_id # None /\ pattern_id.id >= match_len
    \/ start_table_index(pattern_id, start) >= Len(c.starts)
get_cached_start(c, pattern_id, start) ==
    c.starts[start_table_index(pattern_id, start) + 1]

cache_start_one(c, nfa_start_id, start) ==
    Let([get_state_builder(c) EXCEPT !.stack_cap = Max(@, StackFirstCap)], LAMBDA c0 :
      add_builder_state(c0, start_state_of(nfa_start_id, start), "start"))

cache_start_group(c, pattern_id, start) ==
    Try(cache_start_one(c, IF pattern_id # None THEN nfa_start_pattern(pattern_id.id)
                           ELSE nfa_start_unanchored, start), LAMBDA r :
      IF ~is_valid(r.c, r.id) THEN Panic(r.c)
      ELSE Ok([r.c EXCEPT !.starts[start_table_index(pattern_id, start) + 1] = r.id],
              r.id))

start_state_forward(c, pattern_id, start) ==
    IF start_lookup_panics(c, pattern_id, start) THEN Panic(c)
    ELSE Let(get_cached_start(c, pattern_id, start), LAMBDA sid :
           IF ~is_unknown(sid) THEN Ok(c, sid)
           ELSE cache_start_group(c, pattern_id, start))

\* A cache as an operation finds it: nothing recorded yet.
Entering(c) ==
    [c EXCEPT !.depth = 0, !.n_clears = 0, !.at_clear = None, !.max_add = 0,
              !.tried = None]

(***************************************************************************)
(* The forward search, find_fwd_imp without a prefilter, one haystack byte *)
(* per step.  The unrolled loops follow cached transitions and fall back   *)
(* to next_state on an unknown one, which is what next_state does alone.   *)
(***************************************************************************)
HalfMatch(pattern, offset) == [kind |-> "HalfMatch", pattern |-> pattern, offset |-> offset]
ResultOk(out) == [kind |-> "Ok", out |-> out]
Quit(byte, offset) == [kind |-> "Quit", byte |-> byte, offset |-> offset]
gave_up(offset) == [kind |-> "GaveUp", offset |-> offset]
Panicked == [kind |-> "Panic"]

Finished(s, result) == [s EXCEPT !.pc = "done", !.result = result]
Aborted(s) == [s EXCEPT !.pc = "panic", !.result = Panicked]

Idle == [pc |-> "idle", start |-> 0, at |-> 0, sid |-> unknown_id, out |-> None,
         result |-> None, earliest |-> FALSE, searches |-> 0, pattern_id |-> None]

match_pattern(sid, match_index) == 0

init_fwd(c, pattern_id, start, at, earliest) ==
    Let(start_state_forward(c, pattern_id, start), LAMBDA r :
    Let([Idle EXCEPT !.start = at, !.at = at, !.earliest = earliest,
                     !.pattern_id = pattern_id], LAMBDA s :
      [c |-> r.c, r |-> r,
       s |-> CASE r.res = "err" -> Finished(s, gave_up(at))
               [] r.res = "panic" -> Aborted(s)
               [] OTHER -> [s EXCEPT !.pc = "scan", !.sid = r.id]]))

\* What the loop body does with the state it stepped to.
after_step(s, sid, byte) ==
    LET s1 == [s EXCEPT !.sid = sid]
        found == [s1 EXCEPT !.out = HalfMatch(match_pattern(sid, 0), s.at)]
    IN CASE ~is_tagged(sid) \/ is_start(sid) -> [s1 EXCEPT !.at = @ + 1]
         [] is_match(sid) ->
                IF s.earliest THEN Finished(found, ResultOk(found.out))
                ELSE [found EXCEPT !.at = @ + 1]
         [] is_dead(sid) -> Finished(s1, ResultOk(s.out))
         [] is_quit(sid) ->
                IF s.out # None THEN Finished(s1, ResultOk(s.out))
                ELSE Finished(s1, Quit(byte, s.at))
         [] OTHER -> Aborted(s1)

find_fwd_step(c, s, byte) ==
    Let(next_state(c, s.sid, byte), LAMBDA r :
      [c |-> r.c, r |-> r,
       s |-> CASE r.res = "err" -> Finished(s, gave_up(s.at))
               [] r.res = "panic" -> Aborted(s)
               [] OTHER -> after_step(s, r.id, byte)])

\* eoi_fwd: `ahead` is the byte at the span's end, or EOI when the haystack
\* ends there.
eoi_fwd(c, s, ahead) ==
    Let(IF ahead # EOI THEN next_state(c, s.sid, ahead)
        ELSE next_eoi_state(c, s.sid), LAMBDA r :
    Let(IF is_match(r.id) THEN HalfMatch(match_pattern(r.id, 0), s.at) ELSE s.out,
        LAMBDA out :
      [c |-> r.c, r |-> r,
       s |-> CASE r.res = "err" -> Finished(s, gave_up(s.at))
               [] r.res = "panic" -> Aborted(s)
               [] OTHER -> Finished([s EXCEPT !.sid = r.id, !.out = out],
                                    ResultOk(out))]))

(***************************************************************************)
(* The state machine of the lazy DFA.                                      *)
(***************************************************************************)
\* The bytes haystacks are made of: a and a byte the pattern never
\* matches, which is the quit byte of the configurations that have one.
QuitByte == 3
HayBytes == {1, QuitByte}

Some(n) == [kind |-> "Some", count |-> n]
Configs ==
    { [cache_capacity |-> cap, skip_cache_capacity_check |-> skip,
       minimum_cache_clear_count |-> min, quitset |-> quit] :
         cap \in {None, [kind |-> "Some", bytes |-> 0]},
         skip \in BOOLEAN,
         min \in {None, Some(0), Some(1)},
         quit \in {{}, {QuitByte}} }

NoOp == [op |-> "none", current |-> unknown_id, from |-> State_dead, unit |-> EOI,
         at |-> 0, miss |-> FALSE, res |-> "ok", id |-> unknown_id]

\* The meta engine before any search; `core` tells which engines were built.
MetaIdle(core) == [pc |-> "idle", core |-> core, errs |-> "any"]
\* No iterator has been made.
NoIter == [kind |-> "none"]

\* No overlapping search has been made.
NoDeterminizer == [pc |-> "none"]
NoOnePass == [pc |-> "none"]
NoOverlapping == [pc |-> "none"]
NoSparse == [pc |-> "none"]

LazyInit ==
    /\ prog = Program_a_ab_ab
    /\ ov = NoOverlapping
    /\ det = NoDeterminizer
    /\ one = NoOnePass
    /\ sdfa = NoSparse
    /\ \E config \in Configs : inert = InertDFA_new(config)
    /\ cache = IF inert.built THEN Cache_new.c ELSE Cache_empty
    /\ srch = Idle
    /\ ref = [c |-> cache, s |-> Idle]
    /\ last = NoOp
    /\ meta = MetaIdle(None)
    /\ it = NoIter

Usable == inert.built /\ srch.pc \in {"idle", "done"}

StartOffset(start) == IF start = "Text" THEN 0 ELSE 1

\* A forward search begins: find_fwd up to its start state.
StartSearch(pattern_id, start, earliest) ==
    /\ Usable
    /\ srch.searches < MaxSearches
    /\ \E n \in {init_fwd(Entering(cache), pattern_id, start, StartOffset(start),
                          earliest)},
          m \in {init_fwd(Cache_new.c, pattern_id, start, StartOffset(start),
                          earliest)} :
          /\ cache' = n.c
          /\ srch' = [n.s EXCEPT !.searches = srch.searches + 1]
          /\ ref' = [c |-> m.c, s |-> m.s]
          /\ last' = [NoOp EXCEPT !.op = "start_state_forward",
                         !.at = StartOffset(start),
                         !.miss = /\ ~start_lookup_panics(cache, pattern_id, start)
                                  /\ is_unknown(get_cached_start(cache, pattern_id,
                                                                  start)),
                         !.res = n.r.res, !.id = n.r.id]
    /\ UNCHANGED <<inert, meta, it, prog, ov, det, one, sdfa>>
\* A search for any pattern, and one anchored at the pattern pid.
SearchStart(start, earliest) == StartSearch(None, start, earliest)
SearchStartPattern(pid, start, earliest) ==
    StartSearch(PatternID(pid), start, earliest)

Stepped(op, byte, r) ==
    [op |-> op, current |-> srch.sid,
     from |-> cache.states[(as_usize_untagged(srch.sid) \div stride) + 1],
     unit |-> byte, at |-> srch.at,
     miss |-> is_unknown(cache.trans[as_usize_untagged(srch.sid) + byte + 1]),
     res |-> r.res, id |-> r.id]

RefStep(m) == IF ref.s.pc = "scan" THEN [c |-> m.c, s |-> m.s] ELSE ref

ScanStep(byte) ==
    /\ inert.built /\ srch.pc = "scan"
    /\ srch.at - srch.start < MaxLen
    /\ \E n \in {find_fwd_step(Entering(cache), srch, byte)},
          m \in {find_fwd_step(Entering(ref.c), ref.s, byte)} :
          /\ cache' = n.c
          /\ srch' = n.s
          /\ ref' = RefStep(m)
          /\ last' = Stepped("next_state", byte, n.r)
    /\ UNCHANGED <<inert, meta, it, prog, ov, det, one, sdfa>>

Eoi(ahead) ==
    /\ inert.built /\ srch.pc = "scan"
    /\ \E n \in {eoi_fwd(Entering(cache), srch, ahead)},
          m \in {eoi_fwd(Entering(ref.c), ref.s, ahead)} :
          /\ cache' = n.c
          /\ srch' = n.s
          /\ ref' = RefStep(m)
          /\ last' = Stepped(IF ahead = EOI THEN "next_eoi_state" ELSE "next_state",
                             ahead, n.r)
    /\ UNCHANGED <<inert, meta, it, prog, ov, det, one, sdfa>>

ResetCache ==
    /\ Usable
    /\ srch.pc = "done"
    /\ \E r \in {reset_cache(Entering(cache))} :
          /\ cache' = r.c
          /\ srch' = [IF r.res = "ok" THEN Idle ELSE Aborted(Idle)
                        EXCEPT !.searches = srch.searches]
          /\ last' = [NoOp EXCEPT !.op = "reset_cache", !.res = r.res]
    /\ ref' = [c |-> Cache_new.c, s |-> Idle]
    /\ UNCHANGED <<inert, meta, it, prog, ov, det, one, sdfa>>

Next ==
    \/ \E start \in {"Text"}, earliest \in {FALSE} : SearchStart(start, earliest)
    \/ \E byte \in HayBytes : ScanStep(byte)
    \/ \E ahead \in HayBytes \cup {EOI} : Eoi(ahead)
    \/ ResetCache

Spec == LazyInit /\ [][Next]_vars

(***************************************************************************)
(* The meta engine's strategies.  The engines themselves (full DFA, lazy   *)
(* DFA behind hybrid::regex, one-pass DFA, bounded backtracker, PikeVM)    *)
(* are seen through what they return: `hay` is the set of matches the      *)
(* regex has in the haystack, and every engine that does not fail answers  *)
(* a search with the match its input selects among them.                   *)
(***************************************************************************)
OkR(value) == [ok |-> TRUE, value |-> value]
ErrR(err) == [ok |-> FALSE, err |-> err]
HaystackTooLong(len) == [kind |-> "HaystackTooLong", len |-> len]
Match(pattern, start, end) ==
    [kind |-> "Match", pattern |-> pattern, start |-> start, end |-> end]

AnchoredNo == [kind |-> "No"]
AnchoredYes == [kind |-> "Yes"]
AnchoredPattern(pid) == [kind |-> "Pattern", pid |-> pid]
is_anchored(anchored) == anchored.kind \in {"Yes", "Pattern"}
span_len(input) == input.end - input.start
is_done(input) == input.start > input.end

\* The patterns of the regex a Core is built for, and of the one a
\* prefilter strategy is built for (strategy.rs: hirs.len() == 1).
CorePatterns == {0, 1}
PrePatterns == {0}
\* GroupInfo::implicit_slot_len: two slots for every pattern.
implicit_slot_len == 2 * Cardinality(CorePatterns)
\* With one explicit group in every pattern.
slot_len == 2 * implicit_slot_len
Slot(at) == [kind |-> "Slot", at |-> at]
NoSlots(slots_len) == [i \in 1 .. slots_len |-> None]

AllMatches(patterns) ==
    {m \in {Match(p, s, e) : p \in patterns, s \in 0 .. MaxSpan, e \in 0 .. MaxSpan} :
        m.start <= m.end}
\* The haystacks, as the sets of at most n matches a regex has in them.
RECURSIVE HaysUpTo(_, _)
HaysUpTo(patterns, n) ==
    IF n = 0 THEN {{}}
    ELSE LET prev == HaysUpTo(patterns, n - 1)
         IN prev \cup {h \cup {m} : h \in prev, m \in AllMatches(patterns)}

\* The matches of the haystack that a search with `input` may report.
Candidates(hay, input) ==
    {m \in hay :
        /\ input.start <= m.start /\ m.end <= input.end
        /\ is_anchored(input.anchored) => m.start = input.start
        /\ input.anchored.kind = "Pattern" => m.pattern = input.anchored.pid}
\* Leftmost, then the pattern that comes first, then the longest.
Better(a, b) ==
    \/ a.start < b.start
    \/ a.start = b.start /\ a.pattern < b.pattern
    \/ a.start = b.start /\ a.pattern = b.pattern /\ a.end >= b.end
engine_search(hay, input) ==
    LET c == Candidates(hay, input)
    IN IF c = {} THEN None ELSE CHOOSE m \in c : \A o \in c : Better(m, o)
\* The slots an engine's try_search_slots writes for the match it found.
engine_slots(m, slots_len) ==
    [i \in 1 .. slots_len |->
        IF m = None THEN None
        ELSE IF i = 2 * m.pattern + 1 THEN Slot(m.start)
        ELSE IF i = 2 * m.pattern + 2 THEN Slot(m.end)
        ELSE IF i = implicit_slot_len + 2 * m.pattern + 1 THEN Slot(m.start)
        ELSE IF i = implicit_slot_len + 2 * m.pattern + 2 THEN Slot(m.end)
        ELSE None]
\* What an NFA engine's slots search reports, with the match in the slots.
slow_of(hay, input) ==
    LET m == engine_search(hay, input)
    IN [pid |-> OkR(IF m = None THEN None ELSE PatternID(m.pattern)),
        found |-> m]

is_err_quit_or_gaveup_quit_only(err) == err.kind = "Quit"

is_err_quit_or_gaveup_gaveup_only(err) == err.kind = "GaveUp"

is_err_quit_or_gaveup(err) == err.kind \in {"Quit", "GaveUp"}

\* BoundedBacktracker::max_haystack_len of the backtracker that was built.
max_haystack_len == MaxSpan - 1

DFA_get(core, input) == core.dfa
Hybrid_get(core, input) == core.hybrid
OnePass_get(core, input) == core.onepass /\ is_anchored(input.anchored)
BoundedBacktracker_get_unbounded(core, input) ==
    core.backtrack /\ ~input.earliest

BoundedBacktracker_get(core, input) ==
    /\ core.backtrack
    /\ ~input.earliest
    /\ ~(span_len(input) > max_haystack_len)

try_search_mayfail(core, input, fast) ==
    IF DFA_get(core, input) \/ Hybrid_get(core, input)
    THEN LET e == IF DFA_get(core, input) THEN "dfa" ELSE "hybrid"
         IN IF fast.ok THEN [res |-> fast, ran |-> <<e>>]
            ELSE IF ~is_err_quit_or_gaveup(fast.err)
                 THEN [res |-> ErrR(fast.err), ran |-> <<e>>]
                 ELSE [res |-> ErrR(None), ran |-> <<e>>]
    ELSE [res |-> ErrR(None), ran |-> <<>>]

\* BoundedBacktracker::try_search_slots
backtrack_try_search_slots(input, slow) ==
    IF span_len(input) > max_haystack_len
    THEN ErrR(HaystackTooLong(span_len(input)))
    ELSE slow

\* Captures::get_match for the pattern a slots search reported.
get_match(pid, slow_match) == IF pid = None THEN None ELSE slow_match

\* Picking the bounded backtracker ahead of the one-pass DFA.
nofail_engine_backtrack_first(core, input) ==
    IF BoundedBacktracker_get(core, input) THEN "backtrack"
    ELSE IF OnePass_get(core, input) THEN "onepass"
    ELSE "pikevm"

\* The engine try_search_nofail and try_search_slots_nofail pick.
nofail_engine(core, input) ==
    IF OnePass_get(core, input) THEN "onepass"
    ELSE IF BoundedBacktracker_get(core, input) THEN "backtrack"
    ELSE "pikevm"

try_search_nofail(core, input, slow) ==
    LET e == nofail_engine(core, input)
        pid == IF e = "backtrack" THEN backtrack_try_search_slots(input, slow.pid)
               ELSE slow.pid
    IN [res |-> IF pid.ok THEN OkR(get_match(pid.value, slow.found)) ELSE pid,
        ran |-> <<e>>]

try_search_slots_nofail(core, input, slots_len, slow) ==
    LET e == nofail_engine(core, input)
        pid == IF e = "backtrack" THEN backtrack_try_search_slots(input, slow.pid)
               ELSE slow.pid
    IN [res |-> pid, ran |-> <<e>>,
        slots |-> IF pid.ok THEN engine_slots(slow.found, slots_len)
                  ELSE NoSlots(slots_len)]

is_capture_search_needed(slots_len) == slots_len > implicit_slot_len

copy_match_to_slots(m, slots_len) ==
    [i \in 1 .. slots_len |->
        IF i = m.pattern * 2 + 1 THEN Slot(m.start)
        ELSE IF i = m.pattern * 2 + 2 THEN Slot(m.end)
        ELSE None]

Core_try_search(core, input, fast, slow) ==
    LET x == try_search_mayfail(core, input, fast)
        y == try_search_nofail(core, input, slow)
    IN IF x.res.ok THEN x
       ELSE IF x.res.err # None THEN x
       ELSE [res |-> y.res, ran |-> x.ran \o y.ran]

HalfOf(m) == IF m = None THEN None ELSE HalfMatch(m.pattern, m.end)

Core_try_search_half(core, input, fast, slow) ==
    LET x == try_search_mayfail(core, input, fast)
        y == try_search_nofail(core, input, slow)
    IN IF x.res.ok THEN x
       ELSE IF x.res.err # None THEN x
       ELSE [res |-> IF y.res.ok THEN OkR(HalfOf(y.res.value)) ELSE y.res,
             ran |-> x.ran \o y.ran]

\* The input of the search that resolves the capture groups of the match m.
rescan_input_whole_span(input, m) ==
    [input EXCEPT !.anchored = AnchoredPattern(m.pattern)]

rescan_input(input, m) ==
    [input EXCEPT !.start = m.start, !.end = m.end,
                  !.anchored = AnchoredPattern(m.pattern)]

NoRescan == [res |-> OkR(None), ran |-> <<>>, slots |-> None, rescan |-> None]

Core_try_search_slots(core, input, slots_len, fast, hay) ==
    IF ~is_capture_search_needed(slots_len)
    THEN LET r == Core_try_search(core, input, fast, slow_of(hay, input))
         IN IF ~r.res.ok
            THEN [NoRescan EXCEPT !.res = r.res, !.ran = r.ran,
                                  !.slots = NoSlots(slots_len)]
            ELSE IF r.res.value = None
            THEN [NoRescan EXCEPT !.ran = r.ran, !.slots = NoSlots(slots_len)]
            ELSE [NoRescan EXCEPT
                    !.res = OkR(PatternID(r.res.value.pattern)), !.ran = r.ran,
                    !.slots = copy_match_to_slots(r.res.value, slots_len)]
    ELSE LET x == try_search_mayfail(core, input, fast)
         IN IF x.res.ok /\ x.res.value # None
            THEN LET again == rescan_input(input, x.res.value)
                     y == try_search_slots_nofail(core, again, slots_len,
                                                  slow_of(hay, again))
                 IN [res |-> y.res, ran |-> x.ran \o y.ran, slots |-> y.slots,
                     rescan |-> again]
            ELSE IF x.res.ok
            THEN [NoRescan EXCEPT !.ran = x.ran, !.slots = NoSlots(slots_len)]
            ELSE IF x.res.err # None
            THEN [NoRescan EXCEPT !.res = x.res, !.ran = x.ran,
                                  !.slots = NoSlots(slots_len)]
            ELSE LET y == try_search_slots_nofail(core, input, slots_len,
                                                  slow_of(hay, input))
                 IN [res |-> y.res, ran |-> x.ran \o y.ran, slots |-> y.slots,
                     rescan |-> None]

\* Core::new builds no lazy DFA when it has a full DFA.
Cores ==
    {core \in [dfa : BOOLEAN, hybrid : BOOLEAN, onepass : BOOLEAN,
               backtrack : BOOLEAN] : ~(core.dfa /\ core.hybrid)}
Anchoreds(patterns) ==
    {AnchoredNo, AnchoredYes} \cup {AnchoredPattern(p) : p \in patterns}
Inputs(patterns) ==
    {input \in [anchored : Anchoreds(patterns), earliest : BOOLEAN,
                start : 0 .. MaxSpan, end : 0 .. MaxSpan] : ~is_done(input)}
\* The errors a MatchError can carry, and those the DFAs make: the lazy DFA
\* quits and gives up, the full DFA quits.
AnyErrors(input) ==
    {Quit(QuitByte, input.start), gave_up(input.start),
     HaystackTooLong(span_len(input))}
EngineErrors(core, input) ==
    IF core.dfa THEN {Quit(QuitByte, input.start)}
    ELSE {Quit(QuitByte, input.start), gave_up(input.start)}
DFAErrors(errs, core, input) ==
    IF errs = "any" THEN AnyErrors(input) ELSE EngineErrors(core, input)
\* What the DFA that is tried returns: its match, or one of `errors`.
FastResults(hay, input, half, errors) ==
    LET m == engine_search(hay, input)
    IN {OkR(IF half THEN HalfOf(m) ELSE m)} \cup {ErrR(err) : err \in errors}

DefaultConfig ==
    [cache_capacity |-> None, skip_cache_capacity_check |-> FALSE,
     minimum_cache_clear_count |-> None, quitset |-> {}]

MetaStart(errs) ==
    /\ prog = Program_a_ab_ab
    /\ ov = NoOverlapping
    /\ det = NoDeterminizer
    /\ one = NoOnePass
    /\ sdfa = NoSparse
    /\ inert = InertDFA_new(DefaultConfig)
    /\ cache = Cache_new.c
    /\ srch = Idle
    /\ ref = [c |-> cache, s |-> Idle]
    /\ last = NoOp
    /\ \E core \in Cores : meta = [MetaIdle(core) EXCEPT !.errs = errs]
    /\ it = NoIter

MetaInit == MetaStart("any")
MetaDefaultInit == MetaStart("engine")

Searched(op, input, slots_len, hay, fast, r) ==
    [pc |-> "done", core |-> meta.core, errs |-> meta.errs, op |-> op,
     input |-> input, slots_len |-> slots_len, hay |-> hay, fast |-> fast,
     slow |-> slow_of(hay, input), ran |-> r.ran, result |-> r.res,
     slots |-> r.slots, rescan |-> r.rescan]

MetaSearch(input, hay, fast) ==
    /\ meta.pc = "idle"
    /\ \E r \in {Core_try_search(meta.core, input, fast, slow_of(hay, input))} :
          meta' = Searched("try_search", input, 0, hay, fast,
                           [NoRescan EXCEPT !.res = r.res, !.ran = r.ran])
    /\ UNCHANGED <<inert, cache, srch, ref, last, it, prog, ov, det, one, sdfa>>

MetaSearchHalf(input, hay, fast) ==
    /\ meta.pc = "idle"
    /\ \E r \in {Core_try_search_half(meta.core, input, fast, slow_of(hay, input))} :
          meta' = Searched("try_search_half", input, 0, hay, fast,
                           [NoRescan EXCEPT !.res = r.res, !.ran = r.ran])
    /\ UNCHANGED <<inert, cache, srch, ref, last, it, prog, ov, det, one, sdfa>>

MetaSearchSlots(input, slots_len, hay, fast) ==
    /\ meta.pc = "idle"
    /\ meta' = Searched("try_search_slots", input, slots_len, hay, fast,
                        Core_try_search_slots(meta.core, input, slots_len, fast, hay))
    /\ UNCHANGED <<inert, cache, srch, ref, last, it, prog, ov, det, one, sdfa>>

\* The search has returned; the strategy is ready for the next one.
MetaReturn ==
    /\ meta.pc = "done"
    /\ meta' = [MetaIdle(meta.core) EXCEPT !.errs = meta.errs]
    /\ UNCHANGED <<inert, cache, srch, ref, last, it, prog, ov, det, one, sdfa>>

CoreInputs == Inputs(CorePatterns)
CoreHays == HaysUpTo(CorePatterns, MaxMatches)

MetaNext ==
    \/ MetaReturn
    \/ /\ meta.pc = "idle"
       /\ \E input \in CoreInputs, hay \in CoreHays :
            \E fast \in FastResults(hay, input, FALSE,
                                    DFAErrors(meta.errs, meta.core, input)) :
               MetaSearch(input, hay, fast)
    \/ /\ meta.pc = "idle"
       /\ \E input \in CoreInputs, hay \in CoreHays :
            \E fast \in FastResults(hay, input, TRUE,
                                    DFAErrors(meta.errs, meta.core, input)) :
               MetaSearchHalf(input, hay, fast)
    \/ /\ meta.pc = "idle"
       /\ \E input \in CoreInputs, hay \in CoreHays :
            \E fast \in FastResults(hay, input, FALSE,
                                    DFAErrors(meta.errs, meta.core, input)),
               slots_len \in {implicit_slot_len, slot_len} :
               MetaSearchSlots(input, slots_len, hay, fast)

SpecMeta == MetaInit /\ [][MetaNext]_vars
SpecMetaDefault == MetaDefaultInit /\ [][MetaNext]_vars

(***************************************************************************)
(* The strategy of a prefilter alone (impl Strategy for T: PrefilterI),    *)
(* built for a regex of one pattern that is a set of literals: `hay` is    *)
(* the set of occurrences of the literals in the haystack.  And searches   *)
(* of the lazy DFA anchored at a pattern, on a DFA built with              *)
(* starts_for_each_pattern.                                                *)
(***************************************************************************)
\* The occurrences within the span.
Occurrences(hay, input) ==
    {m \in hay : input.start <= m.start /\ m.end <= input.end}
\* PrefilterI::find: the leftmost occurrence in the span.
Prefilter_find(hay, input) ==
    LET c == Occurrences(hay, input)
    IN IF c = {} THEN None ELSE CHOOSE m \in c : \A o \in c : Better(m, o)
\* PrefilterI::prefix: the occurrence at the start of the span.
Prefilter_prefix(hay, input) ==
    LET c == {m \in Occurrences(hay, input) : m.start = input.start}
    IN IF c = {} THEN None ELSE CHOOSE m \in c : \A o \in c : Better(m, o)
\* `.map(|sp| Match::new(PatternID::ZERO, sp))`
MatchOfSpan(sp) == IF sp = None THEN None ELSE Match(0, sp.start, sp.end)

Pre_try_search(input, hay) ==
    IF is_done(input) THEN OkR(None)
    ELSE IF is_anchored(input.anchored)
    THEN OkR(MatchOfSpan(Prefilter_prefix(hay, input)))
    ELSE OkR(MatchOfSpan(Prefilter_find(hay, input)))

PreStrategy == [kind |-> "Pre"]
\* The patterns searches are anchored at: the regex's pattern, and an ID
\* that is not a pattern of the regex.
AnchoredPatterns == {0, 1}
PreInputs == Inputs(AnchoredPatterns)
PreHays == HaysUpTo(PrePatterns, MaxMatches)

PreSearch(input, hay) ==
    /\ meta.pc = "idle"
    /\ meta.core = PreStrategy
    /\ meta' = [pc |-> "done", core |-> meta.core, errs |-> meta.errs,
                op |-> "Pre::try_search", input |-> input, hay |-> hay,
                result |-> Pre_try_search(input, hay)]
    /\ UNCHANGED <<inert, cache, srch, ref, last, it, prog, ov, det, one, sdfa>>

\* The searches go to a lazy DFA or to the strategy of a prefilter.
AnchoredInit ==
    /\ prog = Program_with_pattern_starts
    /\ ov = NoOverlapping
    /\ det = NoDeterminizer
    /\ one = NoOnePass
    /\ sdfa = NoSparse
    /\ \E config \in Configs : inert = InertDFA_new(config)
    /\ cache = IF inert.built THEN Cache_new.c ELSE Cache_empty
    /\ srch = Idle
    /\ ref = [c |-> cache, s |-> Idle]
    /\ last = NoOp
    /\ meta \in {MetaIdle(None), MetaIdle(PreStrategy)}
    /\ it = NoIter

AnchoredNext ==
    \/ /\ meta.core = None
       /\ \E pid \in AnchoredPatterns, start \in {"Text", "WordByte"},
             earliest \in BOOLEAN :
             SearchStartPattern(pid, start, earliest)
    \/ \E byte \in HayBytes : ScanStep(byte)
    \/ \E ahead \in HayBytes \cup {EOI} : Eoi(ahead)
    \/ ResetCache
    \/ /\ meta.pc = "idle"
       /\ \E input \in PreInputs, hay \in PreHays : PreSearch(input, hay)
    \/ MetaReturn

SpecAnchored == AnchoredInit /\ [][AnchoredNext]_vars

(***************************************************************************)
(* Iteration (util/iter.rs).  A haystack is a sequence of bytes, each known *)
(* by its role in UTF-8: "a" is an ASCII byte, "L2" and "L3" lead a         *)
(* sequence of two and of three bytes, "c" is a continuation byte.  The     *)
(* regex is seen through the closure the iterator is given: `re[s]` is the  *)
(* end of the match the regex has at offset s, NoMatchAt when it has none,  *)
(* and an overlapping searcher is the sequence of matches it reports.       *)
(***************************************************************************)
\* The longest haystack iterated over.
MaxHay == 3
\* The most matches an overlapping searcher reports.
MaxReported == 3
\* A call of next has its first or its second call of the closure fail, or
\* none.
FinderCalls == 2
NoMatchAt == 0 - 1

Codepoint(len) ==
    IF len = 1 THEN <<"a">>
    ELSE IF len = 2 THEN <<"L2", "c">>
    ELSE <<"L3", "c", "c">>
RECURSIVE TextsOfLen(_)
TextsOfLen(n) ==
    IF n = 0 THEN {<<>>}
    ELSE UNION {{Codepoint(len) \o text : text \in TextsOfLen(n - len)} :
                   len \in {l \in 1 .. 3 : l <= n}}
\* The valid UTF-8 haystacks of at most MaxHay bytes.
Texts == UNION {TextsOfLen(n) : n \in 0 .. MaxHay}
\* Number of codepoints of a valid UTF-8 haystack.
Codepoints(text) == Cardinality({i \in 1 .. Len(text) : text[i] # "c"})

utf8_len(byte) ==
    IF byte = "a" THEN Some(1)
    ELSE IF byte = "L2" THEN Some(2)
    ELSE IF byte = "L3" THEN Some(3)
    ELSE None
\* next_utf8 going on by one byte whatever the byte at i.
next_utf8_one_byte(text, i) == i + 1
next_utf8(text, i) ==
    IF i >= Len(text) THEN i + 1
    ELSE LET len == utf8_len(text[i + 1])
         IN i + (IF len = None THEN 1 ELSE len.count)
is_char_boundary(text, offset) ==
    \/ offset = 0
    \/ offset = Len(text)
    \/ offset < Len(text) /\ text[offset + 1] # "c"

\* util/matchtypes.rs: Search.
Search_new(text, utf8) ==
    [text |-> text, start |-> 0, end |-> Len(text), utf8 |-> utf8]
Search_set_start(search, start) == [search EXCEPT !.start = start]
Search_step(search) ==
    Search_set_start(search, IF search.utf8 THEN next_utf8(search.text, search.start)
                             ELSE search.start + 1)
Search_step_one(search) == Search_step(search)
Search_is_done(search) == search.start > search.end
is_empty(m) == m.start = m.end

\* The regexes of a haystack: at every offset, the end of the match there.
Regexes(text) ==
    {re \in [0 .. Len(text) -> {NoMatchAt} \cup (0 .. Len(text))] :
        \A s \in 0 .. Len(text) : re[s] # NoMatchAt => re[s] >= s}
\* The regex that matches the empty string, and so at every offset.
EmptyRegex(text) == [s \in 0 .. Len(text) |-> s]
\* What a leftmost search of `search` finds.
find(re, search) ==
    LET at == {s \in search.start .. search.end : re[s] # NoMatchAt /\ re[s] <= search.end}
    IN IF at = {} THEN None
       ELSE LET s == CHOOSE s \in at : \A t \in at : s <= t
            IN Match(PatternID(0), s, re[s])
\* What successive overlapping searches report: matches in the order of
\* their ends.
RECURSIVE ReportedUpTo(_, _)
ReportedUpTo(text, n) ==
    IF n = 0 THEN {<<>>}
    ELSE LET prev == ReportedUpTo(text, n - 1)
         IN prev \cup
            {Append(r, Match(PatternID(0), s, e)) :
                r \in {p \in prev : Len(p) = n - 1},
                s \in 0 .. Len(text), e \in 0 .. Len(text)}
Reported(text) ==
    {r \in ReportedUpTo(text, MaxReported) :
        /\ \A i \in 1 .. Len(r) : r[i].start <= r[i].end
        /\ \A i \in 1 .. Len(r) - 1 : r[i].end <= r[i + 1].end}

NonOverlapping == {"TryMatches", "TryCaptures", "TryHalfMatches"}
Iter_new(kind, text, utf8, re, reported) ==
    [kind |-> kind, search |-> Search_new(text, utf8), re |-> re,
     reported |-> reported, asked |-> 0, last_match_end |-> None,
     calls |-> 0, starts |-> <<>>, out |-> None, before |-> None,
     yielded |-> <<>>, failed |-> FALSE]

\* One call of the closure: the match of the search, the next report of an
\* overlapping searcher, or an error.
finder(iter, fails) ==
    IF fails THEN ErrR(Quit(QuitByte, iter.search.start))
    ELSE IF iter.kind = "TryOverlappingMatches"
    THEN OkR(IF iter.asked < Len(iter.reported) THEN iter.reported[iter.asked + 1]
             ELSE None)
    ELSE IF iter.kind = "TryHalfMatches" THEN OkR(HalfOf(find(iter.re, iter.search)))
    ELSE OkR(find(iter.re, iter.search))
Call(iter, fails) ==
    [it |-> [iter EXCEPT !.asked = IF fails THEN @ ELSE @ + 1, !.failed = @ \/ fails,
                         !.starts = Append(@, iter.search.start)],
     r |-> finder(iter, fails)]

\* What next returns, and the iterator it leaves.
Returns(iter, out) == [it |-> iter, out |-> out]
\* A helper hands back a match to go on with, or what next is to return.
GoOn(iter, m) == [it |-> iter, m |-> m, returns |-> FALSE, out |-> None]
Leave(iter, out) == [it |-> iter, m |-> None, returns |-> TRUE, out |-> out]
\* `(self.finder)(&self.search).transpose()?` and the match on its result.
Called(c) ==
    IF ~c.r.ok THEN Leave(c.it, c.r)
    ELSE IF c.r.value = None THEN Leave(c.it, None)
    ELSE GoOn(c.it, c.r.value)
With_search(iter, search) == [iter EXCEPT !.search = search]

\* handle_empty2 keeping the empty match at the end of the previous one.
TryMatches_handle_empty2_no_retry(iter, m, fail) == GoOn(iter, m)
TryMatches_handle_empty2(iter, m, fail) ==
    IF Some(m.end) = iter.last_match_end
    THEN Called(Call(With_search(iter, Search_step_one(iter.search)), fail = 2))
    ELSE GoOn(iter, m)
TryMatches_next(iter, fail) ==
    LET first == Called(Call(iter, fail = 1))
        then == IF ~first.returns /\ is_empty(first.m)
                THEN TryMatches_handle_empty2(first.it, first.m, fail)
                ELSE first
    IN IF then.returns THEN Returns(then.it, then.out)
       ELSE Returns([then.it EXCEPT
                        !.search = Search_set_start(@, then.m.end),
                        !.last_match_end = Some(then.m.end)],
                    OkR(then.m))

\* handle_empty without its first step.
TryCaptures_handle_empty_no_step(iter, m, fail) ==
    IF Some(m.end) = iter.last_match_end
    THEN IF Search_is_done(iter.search) THEN Leave(iter, None)
         ELSE LET again == Called(Call(iter, fail = 2))
              IN IF again.returns THEN again
                 ELSE LET at == Search_set_start(again.it.search, again.m.end)
                      IN GoOn(With_search(again.it,
                                          IF is_empty(again.m) THEN Search_step(at)
                                          ELSE at),
                              again.m)
    ELSE GoOn(iter, m)
TryCaptures_handle_empty(iter, m, fail) ==
    LET stepped == With_search(iter, Search_step(iter.search))
    IN IF Some(m.end) = iter.last_match_end
       THEN IF Search_is_done(stepped.search) THEN Leave(stepped, None)
            ELSE LET again == Called(Call(stepped, fail = 2))
                 IN IF again.returns THEN again
                    ELSE LET at == Search_set_start(again.it.search, again.m.end)
                         IN GoOn(With_search(again.it,
                                             IF is_empty(again.m) THEN Search_step(at)
                                             ELSE at),
                                 again.m)
       ELSE GoOn(stepped, m)
TryCaptures_next(iter, fail) ==
    IF Search_is_done(iter.search) THEN Returns(iter, None)
    ELSE LET first == Called(Call(iter, fail = 1))
             at == With_search(first.it, Search_set_start(first.it.search, first.m.end))
             then == IF first.returns THEN first
                     ELSE IF is_empty(first.m)
                     THEN TryCaptures_handle_empty(at, first.m, fail)
                     ELSE GoOn(at, first.m)
         IN IF then.returns THEN Returns(then.it, then.out)
            ELSE Returns([then.it EXCEPT !.last_match_end = Some(then.m.end)],
                         OkR(then.m))

\* The loop of skip_invalid_empty_matches, entered with the match m.
RECURSIVE skip_loop(_, _, _)
skip_loop(iter, m, fail) ==
    IF is_empty(m) /\ ~is_char_boundary(iter.search.text, m.end)
    THEN LET again == Called(Call(iter, fail = 2 /\ ~iter.failed))
         IN IF again.returns THEN again
            ELSE skip_loop(With_search(again.it,
                                       Search_set_start(again.it.search, again.m.end)),
                           again.m, fail)
    ELSE GoOn(iter, m)
\* skip_invalid_empty_matches without its test of the UTF-8 mode.
skip_invalid_empty_matches_any_mode(iter, m, fail) == skip_loop(iter, m, fail)
skip_invalid_empty_matches(iter, m, fail) ==
    IF ~iter.search.utf8 THEN GoOn(iter, m)
    ELSE skip_loop(iter, m, fail)
TryOverlappingMatches_next(iter, fail) ==
    IF Search_is_done(iter.search) THEN Returns(iter, None)
    ELSE LET first == Called(Call(iter, fail = 1))
             at == With_search(first.it, Search_set_start(first.it.search, first.m.end))
             then == IF first.returns THEN first
                     ELSE IF is_empty(first.m)
                     THEN skip_invalid_empty_matches(at, first.m, fail)
                     ELSE GoOn(at, first.m)
         IN Returns(then.it, IF then.returns THEN then.out ELSE OkR(then.m))

handle_overlapping_empty_match(iter, m, fail) ==
    LET at == With_search(iter, Search_set_start(iter.search, iter.search.start + 1))
    IN IF Search_is_done(at.search) THEN Leave(at, None)
       ELSE Called(Call(at, fail = 2))
TryHalfMatches_next(iter, fail) ==
    IF Search_is_done(iter.search) THEN Returns(iter, None)
    ELSE LET first == Called(Call(iter, fail = 1))
             then == IF ~first.returns /\ Some(first.m.offset) = first.it.last_match_end
                     THEN handle_overlapping_empty_match(first.it, first.m, fail)
                     ELSE first
         IN IF then.returns THEN Returns(then.it, then.out)
            ELSE Returns([then.it EXCEPT
                             !.search = Search_set_start(@, then.m.offset),
                             !.last_match_end = Some(then.m.offset)],
                         OkR(then.m))

Iter_next(iter, fail) ==
    IF iter.kind = "TryMatches" THEN TryMatches_next(iter, fail)
    ELSE IF iter.kind = "TryCaptures" THEN TryCaptures_next(iter, fail)
    ELSE IF iter.kind = "TryHalfMatches" THEN TryHalfMatches_next(iter, fail)
    ELSE TryOverlappingMatches_next(iter, fail)

\* The match an item carries, None for an error and for the end.
Yielded(out) == IF out # None /\ out.ok THEN out.value ELSE None
\* The iterators a caller makes: over every haystack, in either mode, for
\* every regex and every overlapping searcher.
Iterators ==
    UNION {{Iter_new(kind, text, utf8, re, <<>>) :
               kind \in NonOverlapping, utf8 \in BOOLEAN, re \in Regexes(text)}
           \cup {Iter_new("TryOverlappingMatches", text, utf8, EmptyRegex(text), r) :
               utf8 \in BOOLEAN, r \in Reported(text)} :
           text \in Texts}

IterInit ==
    /\ prog = Program_a_ab_ab
    /\ ov = NoOverlapping
    /\ det = NoDeterminizer
    /\ one = NoOnePass
    /\ sdfa = NoSparse
    /\ inert = InertDFA_new(DefaultConfig)
    /\ cache = Cache_new.c
    /\ srch = Idle
    /\ ref = [c |-> cache, s |-> Idle]
    /\ last = NoOp
    /\ meta = MetaIdle(None)
    /\ it \in Iterators

\* One call of the iterator's next.  An iterator that has returned None is
\* not asked again, and the closure fails at most once.
IterNext(fail) ==
    /\ it.kind # "none"
    /\ it.calls = 0 \/ it.out # None
    /\ fail # 0 => ~it.failed
    /\ \E n \in {Iter_next([it EXCEPT !.starts = <<>>], fail)} :
          it' = [n.it EXCEPT
                    !.calls = @ + 1,
                    !.out = n.out,
                    !.before = IF Yielded(it.out) # None THEN Yielded(it.out)
                               ELSE it.before,
                    !.yielded = IF Yielded(n.out) # None THEN Append(@, Yielded(n.out))
                                ELSE @]
    /\ UNCHANGED <<inert, cache, srch, ref, last, meta, prog, ov, det, one, sdfa>>

SpecIter == IterInit /\ [][\E fail \in 0 .. FinderCalls : IterNext(fail)]_vars
\* The longest haystack of the iterators that are followed to their end.
FairHay == 1
\* The non-overlapping iterators over the haystacks of at most FairHay bytes.
IterInitFair ==
    /\ IterInit
    /\ it.kind \in NonOverlapping
    /\ Len(it.search.text) <= FairHay
\* The caller goes on calling next until it returns None.
SpecIterFair ==
    /\ IterInitFair /\ [][\E fail \in 0 .. FinderCalls : IterNext(fail)]_vars
    /\ WF_vars(\E fail \in 0 .. FinderCalls : IterNext(fail))

(***************************************************************************)
(* The overlapping forward search of the lazy DFA (hybrid/search.rs),      *)
(* one call of find_overlapping_fwd per step, on the cache its calls       *)
(* share.  The searches start at offset 0 of the haystack.                 *)
(***************************************************************************)
\* Calls of find_overlapping_fwd with one OverlappingState.
MaxOverlappingCalls == 4
Haystack(str) == [i \in 1 .. Len(str) |-> Letter(str[i])]
Samwise == Haystack(<<"S", "a", "m", "w", "i", "s", "e">>)
SamSam == Haystack(<<"S", "a", "m", "S", "a", "m">>)
AAAA == Haystack(<<"a", "a", "a", "a">>)
OverlappingHays ==
    {SubSeq(Samwise, 1, n) : n \in 0 .. Len(Samwise)}
        \cup {SubSeq(SamSam, 1, n) : n \in 0 .. Len(SamSam)}
        \cup {AAAA}

OverlappingState_start == [id |-> None, at |-> 0, next_match_index |-> None]
\* What a call leaves: the cache, the OverlappingState, `out` and the result.
Overlapped(c, state, out, result) ==
    [c |-> c, state |-> state, out |-> out, result |-> result, eoi |-> FALSE]
\* The same of a call that went through eoi_fwd.
OverlappedAtEoi(c, state, out, result) ==
    [c |-> c, state |-> state, out |-> out, result |-> result, eoi |-> TRUE]
Failed(r, state, at) ==
    Overlapped(r.c, state, None, IF r.res = "err" THEN gave_up(at) ELSE Panicked)

\* The byte at the end of the span, EOI at the end of the haystack.
Ahead(hay, end) == IF end < Len(hay) THEN hay[end + 1] ELSE EOI

RECURSIVE overlapping_scan(_, _, _, _, _)
overlapping_scan(c, hay, end, state, sid) ==
    IF state.at < end
    THEN Let(next_state(c, sid, hay[state.at + 1]), LAMBDA r :
         IF r.res # "ok" THEN Failed(r, state, state.at)
         ELSE IF ~is_tagged(r.id)
         THEN overlapping_scan(r.c, hay, end, [state EXCEPT !.at = @ + 1], r.id)
         ELSE Let([state EXCEPT !.id = Some(r.id)], LAMBDA st :
              IF is_start(r.id)
              THEN overlapping_scan(r.c, hay, end, [st EXCEPT !.at = @ + 1], r.id)
              ELSE IF is_match(r.id)
              THEN Let(HalfMatch(match_pattern(r.id, 0), st.at), LAMBDA m :
                     Overlapped(r.c, [st EXCEPT !.next_match_index = Some(1)],
                                m, ResultOk(m)))
              ELSE IF is_dead(r.id) THEN Overlapped(r.c, st, None, ResultOk(None))
              ELSE IF is_quit(r.id)
              THEN Overlapped(r.c, st, None, Quit(hay[st.at + 1], st.at))
              ELSE Overlapped(r.c, st, None, Panicked)))
    ELSE Let(eoi_fwd(c, [Idle EXCEPT !.pc = "scan", !.sid = sid, !.at = end],
                     Ahead(hay, end)), LAMBDA e :
         IF e.s.result.kind # "Ok"
         THEN OverlappedAtEoi(e.c, state, None, e.s.result)
         ELSE OverlappedAtEoi(e.c,
                              [state EXCEPT !.id = Some(e.s.sid),
                                            !.next_match_index =
                                                IF e.s.out # None THEN Some(1) ELSE @],
                              e.s.out, ResultOk(e.s.out)))

\* Going on at the position whose matches are reported.
after_reported_same_position(state) == state
\* All matches at state.at are reported: the search goes on after it.
after_reported(state) == [state EXCEPT !.at = @ + 1]

find_overlapping_fwd_imp(c, hay, start, end, state) ==
    IF state.id = None
    THEN Let(start_state_forward(c, None, "Text"), LAMBDA r :
         Let([state EXCEPT !.at = start], LAMBDA st :
           IF r.res # "ok" THEN Failed(r, st, start)
           ELSE overlapping_scan(r.c, hay, end, st, r.id)))
    ELSE IF /\ state.next_match_index # None
            /\ state.next_match_index.count < match_len
    THEN Let(HalfMatch(match_pattern(state.id.count, state.next_match_index.count),
                       state.at), LAMBDA m :
           Overlapped(c, [state EXCEPT !.next_match_index = Some(@.count + 1)],
                      m, ResultOk(m)))
    ELSE overlapping_scan(c, hay, end, after_reported(state), state.id.count)

find_overlapping_fwd(c, hay, start, end, state) ==
    IF start > end THEN Overlapped(c, state, None, ResultOk(None))
    ELSE find_overlapping_fwd_imp(c, hay, start, end, state)

OverlappingInit ==
    /\ prog \in {Program_Samwise_Sam, Program_a_ab_ab_All}
    /\ ov = [pc |-> "idle", searches |-> 0]
    /\ det = NoDeterminizer
    /\ one = NoOnePass
    /\ sdfa = NoSparse
    /\ inert = InertDFA_new(DefaultConfig)
    /\ cache = Cache_new.c
    /\ srch = Idle
    /\ ref = [c |-> cache, s |-> Idle]
    /\ last = NoOp
    /\ meta = MetaIdle(None)
    /\ it = NoIter

\* `before` is the record of the call before with the same OverlappingState;
\* eois counts the calls that went through eoi_fwd and nones those that
\* reported no match.
OverlappingCalled(hay, end, searches, before, r) ==
    [pc |-> "called", hay |-> hay, end |-> end, searches |-> searches,
     calls |-> before.calls + 1, state |-> r.state, out |-> r.out,
     result |-> r.result,
     found |-> IF r.out # None THEN Append(before.found, r.out) ELSE before.found,
     eois |-> IF r.eoi THEN before.eois + 1 ELSE before.eois,
     nones |-> IF r.out = None THEN before.nones + 1 ELSE before.nones,
     given |-> before.state]
NotCalled ==
    [calls |-> 0, found |-> <<>>, eois |-> 0, nones |-> 0,
     state |-> OverlappingState_start]

\* try_search_overlapping_fwd with a new OverlappingState.
OverlappingSearch(hay, end) ==
    /\ ov.pc # "none"
    /\ ov.searches < MaxSearches
    /\ \E r \in {find_overlapping_fwd(Entering(cache), hay, 0, end,
                                      OverlappingState_start)} :
          /\ cache' = r.c
          /\ ov' = OverlappingCalled(hay, end, ov.searches + 1, NotCalled, r)
    /\ UNCHANGED <<inert, srch, ref, last, meta, it, prog, det, one, sdfa>>

\* try_search_overlapping_fwd with the OverlappingState of the call before.
OverlappingAgain ==
    /\ ov.pc = "called"
    /\ ov.calls < MaxOverlappingCalls
    /\ ov.result.kind = "Ok"
    /\ \E r \in {find_overlapping_fwd(Entering(cache), ov.hay, 0, ov.end, ov.state)} :
          /\ cache' = r.c
          /\ ov' = OverlappingCalled(ov.hay, ov.end, ov.searches, ov, r)
    /\ UNCHANGED <<inert, srch, ref, last, meta, it, prog, det, one, sdfa>>

OverlappingNext ==
    \/ OverlappingAgain
    \/ \E hay \in OverlappingHays : \E end \in 0 .. Len(hay) :
          OverlappingSearch(hay, end)

SpecOverlapping == OverlappingInit /\ [][OverlappingNext]_vars

(***************************************************************************)
(* Determinization into a dense DFA (determinize.rs) and its minimization  *)
(* (minimize.rs).  The NFAs here are anchored and have the states Range,   *)
(* Union and Match; state 1 is the start.  The bytes are a = 0 and b = 1.  *)
(* The dense DFA is a sequence of rows, the row of state id at id + 1;     *)
(* `origin` of a row is the index in builder_states of the state the row   *)
(* was added for, and travels with the row when states are swapped.        *)
(***************************************************************************)
\* Bytes of the dense DFA's alphabet.
DenseByteCount == 2
\* Longest byte sequence run through a DFA and its minimized form.
MaxWord == 3
\* The largest dense state ID: S::max_id() of u8, and scaled to 4 states.
DenseIDSpace == 255
TinyIDSpace == 3

DenseBytes == 0 .. (DenseByteCount - 1)
\* DFA::equiv_bytes without byte classes: every byte, in order.
equiv_bytes == [i \in 1 .. DenseByteCount |-> i - 1]

AnyByte(next) == [kind |-> "Range", start |-> 0, end |-> 1, next |-> next]
ByteA(next) == [kind |-> "Range", start |-> 0, end |-> 0, next |-> next]
ByteB(next) == [kind |-> "Range", start |-> 1, end |-> 1, next |-> next]
Union(alternates) == [kind |-> "Union", alternates |-> alternates]
MatchState == [kind |-> "Match"]

\* a[ab]*|b[ab]*
NFA_a_any_or_b_any == <<
    Union(<<2, 6>>),
    ByteA(3), Union(<<4, 5>>), AnyByte(3), MatchState,
    ByteB(7), Union(<<8, 9>>), AnyByte(7), MatchState >>
\* a[ab]*?
NFA_a_any_lazy == <<
    ByteA(2), Union(<<4, 3>>), AnyByte(2), MatchState >>
\* a|ab
NFA_a_or_ab == <<
    Union(<<2, 4>>),
    ByteA(3), MatchState,
    ByteA(5), ByteB(6), MatchState >>
\* (a|b)(a|b): the two states after the first byte are equivalent.
NFA_ab_ab == <<
    Union(<<2, 3>>),
    ByteA(4), ByteB(5),
    AnyByte(6), AnyByte(6),
    MatchState >>
\* A class of no bytes: a Union without alternates.
NFA_nothing == << Union(<<>>) >>

\* aab
NFA_aab == <<ByteA(2), ByteA(3), ByteB(4), MatchState>>
\* a[ab]|ba
NFA_a_any_or_ba ==
    <<Union(<<2, 4>>), ByteA(3), AnyByte(6), ByteB(5), ByteA(6), MatchState>>
DenseNFAs ==
    {NFA_a_any_or_b_any, NFA_a_any_lazy, NFA_a_or_ab, NFA_ab_ab, NFA_nothing,
     NFA_aab, NFA_a_any_or_ba}

\* Determinizer::longest_match, kept in the program as its match kind.
longest_match == match_kind = "All"
DensePrograms ==
    {[nfa |-> nfa, match_kind |-> kind, starts_for_each_pattern |-> FALSE,
      id_max |-> id_max] :
        nfa \in DenseNFAs, kind \in {"LeftmostFirst", "All"},
        id_max \in {TinyIDSpace, DenseIDSpace}}
nfa_start == 1

(***************************************************************************)
(* The dense DFA under construction (dfa.rs of the same crate).            *)
(***************************************************************************)
DeadRow == [next |-> [b \in DenseBytes |-> 0], origin |-> 0]
DFA_empty == [rows |-> <<DeadRow>>, start |-> 0, max_match |-> 0]
DFA_len(dfa) == Len(dfa.rows)
DFA_ids(dfa) == 0 .. (DFA_len(dfa) - 1)
\* add_empty_state: the next ID, if the ID type holds it; `origin` is the
\* builder state the caller adds next.
DFA_add_empty_state(dfa, origin) ==
    IF DFA_len(dfa) > prog.id_max THEN [ok |-> FALSE, dfa |-> dfa, id |-> 0]
    ELSE [ok |-> TRUE, id |-> DFA_len(dfa),
          dfa |-> [dfa EXCEPT !.rows = Append(@, [DeadRow EXCEPT !.origin = origin])]]
DFA_set_transition(dfa, from, b, to) == [dfa EXCEPT !.rows[from + 1].next[b] = to]
DFA_set_start_state(dfa, id) == [dfa EXCEPT !.start = id]
DFA_swap_states(dfa, id1, id2) ==
    [dfa EXCEPT !.rows[id1 + 1] = dfa.rows[id2 + 1], !.rows[id2 + 1] = dfa.rows[id1 + 1]]
DFA_truncate_states(dfa, count) == [dfa EXCEPT !.rows = SubSeq(@, 1, count)]
DFA_set_max_match_state(dfa, id) == [dfa EXCEPT !.max_match = id]
\* The range check that tells a match state.
DFA_is_match_state(dfa, id) == 1 <= id /\ id <= dfa.max_match

\* shuffle_match_states: the match states swapped to the front, behind the
\* dead state, and every transition and the start rewritten by the swaps.
RECURSIVE SkipMatches(_, _, _)
SkipMatches(is_match_of, from, limit) ==
    IF from < limit /\ is_match_of[from + 1]
    THEN SkipMatches(is_match_of, from + 1, limit) ELSE from
RECURSIVE ShuffleFrom(_, _, _, _, _)
ShuffleFrom(dfa, is_match_of, cur, first_non_match, swaps) ==
    IF cur <= first_non_match
    THEN [dfa |-> dfa, swaps |-> swaps, first_non_match |-> first_non_match]
    ELSE IF is_match_of[cur + 1]
    THEN ShuffleFrom(DFA_swap_states(dfa, cur, first_non_match), is_match_of, cur - 1,
                     SkipMatches(is_match_of, first_non_match + 1, cur),
                     [swaps EXCEPT ![cur + 1] = first_non_match,
                                   ![first_non_match + 1] = cur])
    ELSE ShuffleFrom(dfa, is_match_of, cur - 1, first_non_match, swaps)
Swapped(swaps, id) == IF swaps[id + 1] # 0 THEN swaps[id + 1] ELSE id
DFA_shuffle_match_states(dfa, is_match_of) ==
    IF DFA_len(dfa) <= 1 THEN dfa
    ELSE LET s == ShuffleFrom(dfa, is_match_of, DFA_len(dfa) - 1,
                              SkipMatches(is_match_of, 1, DFA_len(dfa)),
                              [i \in 1 .. DFA_len(dfa) |-> 0])
         IN [rows |-> [i \in 1 .. DFA_len(dfa) |->
                         [s.dfa.rows[i] EXCEPT !.next =
                            [b \in DenseBytes |-> Swapped(s.swaps, s.dfa.rows[i].next[b])]]],
             start |-> Swapped(s.swaps, dfa.start),
             max_match |-> s.first_non_match - 1]

(***************************************************************************)
(* The Determinizer.                                                       *)
(***************************************************************************)
DeterminizerState_dead == [is_match |-> FALSE, nfa_states |-> <<>>]
TooManyStates == [kind |-> "TooManyStates"]

Determinizer_new ==
    [pc |-> "new", dfa |-> DFA_empty,
     builder_states |-> <<DeterminizerState_dead>>,
     cache |-> MapInsert(EmptyMap, DeterminizerState_dead, 0),
     uncompiled |-> <<>>, queued |-> {}, added |-> <<>>, err |-> None]

\* Determinizer::next: the closures of the targets of the Range states of
\* the DFA state that hold the byte.
RECURSIVE Determinizer_next_from(_, _, _, _)
Determinizer_next_from(ids, i, b, set) ==
    IF i > Len(ids) THEN set
    ELSE LET s == NFA[ids[i]]
         IN Determinizer_next_from(ids, i + 1, b,
                IF s.kind = "Range" /\ s.start <= b /\ b <= s.end
                THEN epsilon_closure(s.next, set) ELSE set)
Determinizer_next(d, dfa_id, b) ==
    Determinizer_next_from(d.builder_states[dfa_id + 1].nfa_states, 1, b, <<>>)

\* new_state keeping the states after a Match whatever the semantics.
RECURSIVE new_state_keeping_all_from(_, _, _)
new_state_keeping_all_from(set, i, state) ==
    IF i > Len(set) THEN state
    ELSE CASE NFA[set[i]].kind = "Range" ->
                new_state_keeping_all_from(set, i + 1,
                    [state EXCEPT !.nfa_states = Append(@, set[i])])
           [] NFA[set[i]].kind = "Match" ->
                new_state_keeping_all_from(set, i + 1, [state EXCEPT !.is_match = TRUE])
           [] OTHER -> new_state_keeping_all_from(set, i + 1, state)
new_state_keeping_all(set) ==
    new_state_keeping_all_from(set, 1, DeterminizerState_dead)
RECURSIVE new_state_from(_, _, _)
new_state_from(set, i, state) ==
    IF i > Len(set) THEN state
    ELSE CASE NFA[set[i]].kind = "Range" ->
                new_state_from(set, i + 1, [state EXCEPT !.nfa_states = Append(@, set[i])])
           [] NFA[set[i]].kind = "Match" ->
                IF ~longest_match THEN [state EXCEPT !.is_match = TRUE]
                ELSE new_state_from(set, i + 1, [state EXCEPT !.is_match = TRUE])
           [] OTHER -> new_state_from(set, i + 1, state)
new_state(set) == new_state_from(set, 1, DeterminizerState_dead)

\* `added` records, for every state added, the set it was made of and
\* whether the map held the state already.
Determinizer_add_state(d, state, set) ==
    LET r == DFA_add_empty_state(d.dfa, Len(d.builder_states))
    IN IF ~r.ok THEN Err([d EXCEPT !.err = TooManyStates])
       ELSE Ok([d EXCEPT !.dfa = r.dfa,
                         !.builder_states = Append(@, state),
                         !.cache = MapInsert(@, state, r.id),
                         !.added = Append(@, [id |-> r.id, state |-> state, set |-> set,
                                              cached |-> state \in DOMAIN d.cache])],
               r.id)

cached_state(d, dfa_id, b) ==
    LET set == Determinizer_next(d, dfa_id, b)
        state == new_state(set)
    IN IF state \in DOMAIN d.cache THEN Ok(d, d.cache[state])
       ELSE Determinizer_add_state(d, state, set)

add_start(d) ==
    LET set == epsilon_closure(nfa_start, <<>>)
    IN Try(Determinizer_add_state(d, new_state(set), set), LAMBDA r :
         Ok([r.c EXCEPT !.dfa = DFA_set_start_state(@, r.id)], r.id))

\* The body of build's loop for one state: its transition on every byte.
RECURSIVE build_transitions(_, _, _)
build_transitions(d, dfa_id, i) ==
    IF i > Len(equiv_bytes) THEN Ok(d, dfa_id)
    ELSE Try(cached_state(d, dfa_id, equiv_bytes[i]), LAMBDA r :
           build_transitions(
               [r.c EXCEPT !.dfa = DFA_set_transition(@, dfa_id, equiv_bytes[i], r.id),
                           !.uncompiled = IF r.id \in r.c.queued THEN @ ELSE Append(@, r.id),
                           !.queued = @ \cup {r.id}],
               dfa_id, i + 1))

is_match_of(d) == [i \in 1 .. Len(d.builder_states) |-> d.builder_states[i].is_match]

(***************************************************************************)
(* The Minimizer.  A StateSet is an ascending sequence of state IDs.       *)
(***************************************************************************)
RECURSIVE SortedSeq(_)
SortedSeq(S) ==
    IF S = {} THEN <<>>
    ELSE LET m == CHOOSE x \in S : \A y \in S : x <= y
         IN <<m>> \o SortedSeq(S \ {m})
Elements(s) == {s[i] : i \in 1 .. Len(s)}
Rest(s, from) == SubSeq(s, from, Len(s))

\* StateSet::intersection, with a at seta[i] and b at setb[j].
RECURSIVE intersection_from(_, _, _, _, _)
intersection_from(seta, setb, i, j, dest) ==
    IF seta[i] = setb[j]
    THEN IF i = Len(seta) \/ j = Len(setb) THEN Append(dest, seta[i])
         ELSE intersection_from(seta, setb, i + 1, j + 1, Append(dest, seta[i]))
    ELSE IF seta[i] < setb[j]
    THEN IF i = Len(seta) THEN dest ELSE intersection_from(seta, setb, i + 1, j, dest)
    ELSE IF j = Len(setb) THEN dest ELSE intersection_from(seta, setb, i, j + 1, dest)
intersection(seta, setb) ==
    IF seta = <<>> \/ setb = <<>> THEN <<>>
    ELSE intersection_from(seta, setb, 1, 1, <<>>)

\* StateSet::subtract.
RECURSIVE subtract_from(_, _, _, _, _)
subtract_from(seta, setb, i, j, dest) ==
    IF seta[i] = setb[j]
    THEN IF i = Len(seta) THEN dest
         ELSE IF j = Len(setb) THEN dest \o Rest(seta, i + 1)
         ELSE subtract_from(seta, setb, i + 1, j + 1, dest)
    ELSE IF seta[i] < setb[j]
    THEN IF i = Len(seta) THEN Append(dest, seta[i])
         ELSE subtract_from(seta, setb, i + 1, j, Append(dest, seta[i]))
    ELSE IF j = Len(setb) THEN dest \o Rest(seta, i)
         ELSE subtract_from(seta, setb, i, j + 1, dest)
subtract(seta, setb) ==
    IF seta = <<>> \/ setb = <<>> THEN seta
    ELSE subtract_from(seta, setb, 1, 1, <<>>)

\* find_incoming_to, over incoming_transitions: the states with a
\* transition on b into the set, canonicalized.
find_incoming_to(dfa, b, set) ==
    SortedSeq({id \in DFA_ids(dfa) : dfa.rows[id + 1].next[b] \in Elements(set)})

initial_partitions(dfa) ==
    LET matching == SortedSeq({id \in DFA_ids(dfa) : DFA_is_match_state(dfa, id)})
        no_match == SortedSeq({id \in DFA_ids(dfa) : ~DFA_is_match_state(dfa, id)})
    IN IF no_match = <<>> THEN <<matching>>
       ELSE IF Len(matching) <= Len(no_match) THEN <<matching, no_match>>
       ELSE <<no_match, matching>>

find_waiting(waiting, set) ==
    IF \E i \in 1 .. Len(waiting) : waiting[i] = set
    THEN CHOOSE i \in 1 .. Len(waiting) :
            waiting[i] = set /\ \A k \in 1 .. (i - 1) : waiting[k] # set
    ELSE 0

\* The waiting list after partitions[p] was split into x and y, i its index
\* in the waiting list or 0.
waiting_after_split_larger(waiting, i, x, y) ==
    IF i # 0 THEN Append([waiting EXCEPT ![i] = x], y)
    ELSE IF Len(x) <= Len(y) THEN Append(waiting, y)
    ELSE Append(waiting, x)
waiting_after_split(waiting, i, x, y) ==
    IF i # 0 THEN Append([waiting EXCEPT ![i] = x], y)
    ELSE IF Len(x) <= Len(y) THEN Append(waiting, x)
    ELSE Append(waiting, y)
\* run's loop over the partitions, for one set and one byte.  `splits` is
\* not in the source: it collects the splits made, each with the waiting
\* list after it.
RECURSIVE refine_partitions(_, _, _, _, _, _)
refine_partitions(partitions, p, incoming, newparts, waiting, splits) ==
    IF p > Len(partitions)
    THEN [partitions |-> newparts, waiting |-> waiting, splits |-> splits]
    ELSE LET x == intersection(partitions[p], incoming)
             y == subtract(partitions[p], incoming)
             i == find_waiting(waiting, partitions[p])
             after == waiting_after_split(waiting, i, x, y)
         IN IF x = <<>> \/ y = <<>>
            THEN refine_partitions(partitions, p + 1, incoming,
                                   Append(newparts, partitions[p]), waiting, splits)
            ELSE refine_partitions(partitions, p + 1, incoming,
                     newparts \o <<x, y>>, after,
                     splits \cup {[of |-> partitions[p], x |-> x, y |-> y,
                                   was_waiting |-> i # 0, waiting |-> after]})
\* run's loop over the bytes, for one set taken from the waiting list.
\* `history` is not in the source: the partitions after every byte.
RECURSIVE refine_bytes_from(_, _, _, _, _, _, _)
refine_bytes_from(dfa, partitions, waiting, set, b, splits, history) ==
    IF b >= DenseByteCount
    THEN [partitions |-> partitions, waiting |-> waiting, splits |-> splits,
          history |-> history]
    ELSE LET r == refine_partitions(partitions, 1, find_incoming_to(dfa, b, set),
                                    <<>>, waiting, splits)
         IN refine_bytes_from(dfa, r.partitions, r.waiting, set, b + 1, r.splits,
                              history \cup {r.partitions})
refine_bytes(dfa, partitions, waiting, set, b) ==
    refine_bytes_from(dfa, partitions, waiting, set, b, {}, {partitions})

\* state_to_part: the least state of the partition a state is in.
state_to_part(partitions, id) ==
    IF \E p \in 1 .. Len(partitions) : id \in Elements(partitions[p])
    THEN partitions[CHOOSE p \in 1 .. Len(partitions) : id \in Elements(partitions[p])][1]
    ELSE 0
is_representative(partitions, id) == state_to_part(partitions, id) = id
\* minimal_ids: the representatives numbered in the order of their IDs.
minimal_ids(dfa, partitions, id) ==
    IF is_representative(partitions, id)
    THEN Cardinality({r \in DFA_ids(dfa) : r < id /\ is_representative(partitions, r)})
    ELSE 0
minimal_count(dfa, partitions) ==
    Cardinality({r \in DFA_ids(dfa) : is_representative(partitions, r)})
remapped(old, partitions, id) == minimal_ids(old, partitions, state_to_part(partitions, id))

\* The loop that rewrites the transitions of the representatives and moves
\* them to their new IDs; `old` is the DFA the minimizer was given.
RECURSIVE remap_states(_, _, _, _)
remap_states(dfa, old, partitions, id) ==
    IF id >= DFA_len(old) THEN dfa
    ELSE IF ~is_representative(partitions, id) THEN remap_states(dfa, old, partitions, id + 1)
    ELSE remap_states(
            DFA_swap_states(
                [dfa EXCEPT !.rows[id + 1].next =
                    [b \in DenseBytes |-> remapped(old, partitions, dfa.rows[id + 1].next[b])]],
                id, minimal_ids(old, partitions, id)),
            old, partitions, id + 1)

\* The loop that sets the maximum match state.
RECURSIVE set_max_match(_, _, _, _)
set_max_match(dfa, partitions, old_max, id) ==
    IF id >= DFA_len(dfa) THEN dfa
    ELSE IF state_to_part(partitions, id) > old_max THEN dfa
    ELSE set_max_match(DFA_set_max_match_state(dfa, id), partitions, old_max, id + 1)

\* The end of Minimizer::run, after the refinement.
minimize_remap(old, partitions) ==
    LET moved == remap_states(old, old, partitions, 0)
        started == DFA_set_start_state(moved, remapped(old, partitions, old.start))
        cut == DFA_truncate_states(started, minimal_count(old, partitions))
    IN set_max_match(cut, partitions, cut.max_match, 1)

(***************************************************************************)
(* The state machine of a build: Determinizer::new(nfa), build, and        *)
(* Minimizer::new(dfa).run() on the DFA built.                             *)
(***************************************************************************)
DenseInit ==
    /\ prog \in DensePrograms
    /\ det = Determinizer_new
    /\ one = NoOnePass
    /\ sdfa = NoSparse
    /\ ov = NoOverlapping
    /\ inert = InertDFA_new(DefaultConfig)
    /\ cache = Cache_empty
    /\ srch = Idle
    /\ ref = [c |-> cache, s |-> Idle]
    /\ last = NoOp
    /\ meta = MetaIdle(None)
    /\ it = NoIter

DenseUnchanged == UNCHANGED <<inert, cache, srch, ref, last, meta, it, prog, ov, one, sdfa>>

\* build: add_start.
DeterminizerStart ==
    /\ det.pc = "new"
    /\ \E r \in {add_start(det)} :
          det' = IF r.res = "ok"
                 THEN [r.c EXCEPT !.pc = "building", !.uncompiled = <<r.id>>]
                 ELSE [r.c EXCEPT !.pc = "failed"]
    /\ DenseUnchanged

\* build: one state popped from `uncompiled` and compiled.
DeterminizerCompile ==
    /\ det.pc = "building"
    /\ det.uncompiled # <<>>
    /\ \E dfa_id \in {det.uncompiled[Len(det.uncompiled)]} :
       \E r \in {build_transitions(
                    [det EXCEPT !.uncompiled = SubSeq(@, 1, Len(@) - 1)], dfa_id, 1)} :
          det' = IF r.res = "ok" THEN r.c ELSE [r.c EXCEPT !.pc = "failed"]
    /\ DenseUnchanged

\* build: the match states shuffled to the front; the DFA is returned.
DeterminizerFinish ==
    /\ det.pc = "building"
    /\ det.uncompiled = <<>>
    /\ det' = [det EXCEPT !.pc = "built",
                          !.dfa = DFA_shuffle_match_states(@, is_match_of(det))]
    /\ DenseUnchanged

\* Minimizer::new: asserts that some state matches.
MinimizerNew ==
    /\ det.pc = "built"
    /\ \E partitions \in {initial_partitions(det.dfa)} :
          det' = IF \A id \in DFA_ids(det.dfa) : ~DFA_is_match_state(det.dfa, id)
                 THEN [pc |-> "panic", dfa |-> det.dfa,
                       builder_states |-> det.builder_states]
                 ELSE [pc |-> "minimizing", dfa |-> det.dfa,
                       builder_states |-> det.builder_states, before |-> det.dfa,
                       partitions |-> partitions, waiting |-> <<partitions[1]>>,
                       splits |-> {}, history |-> {partitions}]
    /\ DenseUnchanged

\* run: one set popped from the waiting list.
MinimizerRefine ==
    /\ det.pc = "minimizing"
    /\ det.waiting # <<>>
    /\ \E r \in {refine_bytes(det.dfa, det.partitions,
                              SubSeq(det.waiting, 1, Len(det.waiting) - 1),
                              det.waiting[Len(det.waiting)], 0)} :
          det' = [det EXCEPT !.partitions = r.partitions, !.waiting = r.waiting,
                             !.splits = r.splits, !.history = r.history]
    /\ DenseUnchanged

\* run: the states remapped to their partitions' representatives.
MinimizerRemap ==
    /\ det.pc = "minimizing"
    /\ det.waiting = <<>>
    /\ det' = [det EXCEPT !.pc = "minimized",
                          !.dfa = minimize_remap(det.dfa, det.partitions)]
    /\ DenseUnchanged

DenseNext ==
    \/ DeterminizerStart
    \/ DeterminizerCompile
    \/ DeterminizerFinish
    \/ MinimizerNew
    \/ MinimizerRefine
    \/ MinimizerRemap

SpecDense == DenseInit /\ [][DenseNext]_vars

\* A lazy DFA and its searches, or the build of a dense DFA.
DeadInit == LazyInit \/ DenseInit
DeadNext ==
    \/ /\ det = NoDeterminizer
       /\ Next
    \/ DenseNext
SpecDead == DeadInit /\ [][DeadNext]_vars

(***************************************************************************)
(* The one-pass DFA (dfa/onepass.rs).  A u32 or u64 value is the set of    *)
(* the positions of its one bits, so that shifts and ors are those of the  *)
(* source at their full width.  A StateID is a number below 2^31.  The     *)
(* table is a sequence of cells, the cell of index i at i + 1.  The        *)
(* Thompson NFA and ByteClasses are the spec's.                           *)
(***************************************************************************)
\* The byte values of the one-pass alphabet: u8 scaled to three bits.
OneByteCount == 8
OneBytes == 0 .. (OneByteCount - 1)
\* StateID::MAX
StateID_MAX == 2147483646
\* core::mem::size_of::<u64>()
CellSize == 8

BitsOf(n) == {i \in 0 .. 30 : (n \div Pow2(i)) % 2 = 1}
Shl(bits, k) == {i + k : i \in {j \in bits : j + k < 64}}
Shr(bits, k) == {i - k : i \in {j \in bits : j >= k}}
AsU32(bits) == {i \in bits : i < 32}

\* Info: MAX_SLOTS, empty, slot_insert, look_insert.
MAX_SLOTS == 24
Info_empty == {}
\* False where slot_insert's assertion fails.
Info_slot_ok(slot) == slot < MAX_SLOTS
Info_slot_insert(info, slot) == info \cup Shl({0}, 8 + slot)
\* Look::as_repr: the look-around assertion `look` is the bit `look` of a u8.
Look_as_repr(look) == {look}
Info_look_insert(info, look) == info \cup Look_as_repr(look)
Info_look_is_empty(info) == info \cap (0 .. 7) = {}

\* Transition: new, state_id, set_state_id.
DEAD == 0
Transition_zero == {}
Transition_new_low_state_id(sid, info) == Shl(BitsOf(sid), 24) \cup info
Transition_new(sid, info) == Shl(BitsOf(sid), 32) \cup info
Transition_state_id(t) == Shr(t, 32)
Transition_set_state_id(t, sid) == t \cup Shl(BitsOf(sid), 32)

\* Patterns: MAX, empty, is_empty, insert.
Patterns_MAX == 32
Patterns_empty == {}
Patterns_is_empty(patterns) == patterns = {}
Patterns_insert_ok(pid) == pid < Patterns_MAX
Patterns_insert(patterns, pid) == patterns \cup Shl({0}, pid)

\* PatternInfo: empty, patterns, set_patterns, info, set_info.
MASK_INFO == 0 .. 31
MASK_PATTERNS == 32 .. 63
PatternInfo_empty == {}
PatternInfo_patterns(patinfo) == AsU32(Shr(patinfo, 32))
PatternInfo_set_patterns(patinfo, patterns) ==
    (patinfo \cap MASK_INFO) \cup Shl(patterns, 32)
PatternInfo_info(patinfo) == AsU32(patinfo)
PatternInfo_set_info(patinfo, info) == info \cup (patinfo \cap MASK_PATTERNS)

\* thompson::State
ByteRange(start, end, next) ==
    [kind |-> "ByteRange", trans |-> [start |-> start, end |-> end, next |-> next]]
Sparse(transitions) == [kind |-> "Sparse", transitions |-> transitions]
Look(look, next) == [kind |-> "Look", look |-> look, next |-> next]
ThompsonUnion(alternates) == [kind |-> "Union", alternates |-> alternates]
BinaryUnion(alt1, alt2) == [kind |-> "BinaryUnion", alt1 |-> alt1, alt2 |-> alt2]
Capture(next, slot) == [kind |-> "Capture", next |-> next, slot |-> slot]
Fail == [kind |-> "Fail"]
ThompsonMatch(pattern_id) == [kind |-> "Match", pattern_id |-> pattern_id]
State_is_epsilon(state) == state.kind \in {"Look", "Union", "BinaryUnion", "Capture"}

\* ByteClassSet::set_range: a class ends before `start` and at `end`.
RangeBounds(t) == (IF t.start > 0 THEN {t.start - 1} ELSE {}) \cup {t.end}
StateBounds(state) ==
    CASE state.kind = "ByteRange" -> RangeBounds(state.trans)
      [] state.kind = "Sparse" ->
           UNION {RangeBounds(state.transitions[i]) : i \in DOMAIN state.transitions}
      [] OTHER -> {}
\* NFA::byte_class_set().byte_classes()
ByteClasses_of(states) ==
    LET bounds == UNION {StateBounds(states[i]) : i \in DOMAIN states}
    IN [b \in OneBytes |-> Cardinality({x \in bounds : x < b})]
ByteClasses_singletons == [b \in OneBytes |-> b]
\* The classes of the bytes and the class of the end of input.
ByteClasses_alphabet_len(classes) == classes[OneByteCount - 1] + 2
ByteClasses_stride2(classes) ==
    CHOOSE k \in 0 .. 9 :
       /\ Pow2(k) >= ByteClasses_alphabet_len(classes)
       /\ (k = 0 \/ Pow2(k - 1) < ByteClasses_alphabet_len(classes))
\* The first byte of every class within start..=end, ascending.
ByteClasses_representatives(classes, start, end) ==
    SortedSeq({b \in start .. end : b = start \/ classes[b] # classes[b - 1]})

(***************************************************************************)
(* InternalBuilder.  `produced` is not in the source: it collects, for the *)
(* DFA state being compiled, every transition compile_transition made,     *)
(* with the state and the byte it was made for, and `reached` counts the   *)
(* Match states popped for it.  `err` names the error returned or the      *)
(* panic.                                                                  *)
(***************************************************************************)
InternalBuilder_new(config, nfa) ==
    LET classes == IF ~config.byte_classes THEN ByteClasses_singletons
                   ELSE ByteClasses_of(nfa.states)
    IN [pc |-> "new", config |-> config, nfa |-> nfa, classes |-> classes,
        table |-> <<>>, stride2 |-> ByteClasses_stride2(classes),
        nfa_to_dfa_id |-> [i \in DOMAIN nfa.states |-> DEAD],
        uncompiled_nfa_ids |-> <<>>, seen |-> {}, stack |-> <<>>,
        matched |-> Patterns_empty, dfa_id |-> DEAD, produced |-> {},
        reached |-> 0, err |-> None]

Fails(b, why) == [b EXCEPT !.err = [kind |-> why]]
\* `todo!()`, evaluated to make the value of an `Err(..)`.
Todo(b) == Panic(Fails(b, "not yet implemented"))
OutOfBounds(b) == Panic(Fails(b, "index out of bounds"))

OnePass_alphabet_len(b) == ByteClasses_alphabet_len(b.classes)
OnePass_stride(b) == Pow2(b.stride2)
OnePass_memory_usage(b) == Len(b.table) * CellSize
\* The index of the cell that transition and set_transition use.
TransitionCell(sid, byte) == sid + byte
\* The index of the cell that pattern_info and set_pattern_info use.
PatternInfoCell(b, sid) == sid + OnePass_alphabet_len(b)
InTable(b, index) == index < Len(b.table)
OnePass_transition(b, sid, byte) == b.table[TransitionCell(sid, byte) + 1]
OnePass_set_transition(b, sid, byte, to) ==
    [b EXCEPT !.table[TransitionCell(sid, byte) + 1] = to]
OnePass_pattern_info(b, sid) == b.table[PatternInfoCell(b, sid) + 1]
OnePass_set_pattern_info(b, sid, patinfo) ==
    IF InTable(b, PatternInfoCell(b, sid))
    THEN Ok([b EXCEPT !.table[PatternInfoCell(b, sid) + 1] = patinfo], sid)
    ELSE OutOfBounds(b)

InternalBuilder_add_empty_state(b) ==
    LET next == Len(b.table)
        grown == [b EXCEPT !.table =
                     @ \o [i \in 1 .. OnePass_stride(b) |-> Transition_zero]]
    IN IF next > StateID_MAX THEN Err(Fails(b, "too many states"))
       ELSE IF /\ b.config.size_limit # None
               /\ OnePass_memory_usage(grown) > b.config.size_limit.count
            THEN Err(Fails(grown, "one-pass exceeded size limit"))
            ELSE Ok(grown, next)

add_dfa_state_for_nfa_state(b, nfa_id) ==
    IF State_is_epsilon(b.nfa.states[nfa_id])
    THEN Panic(Fails(b, "assertion failed: !is_epsilon"))
    ELSE Try(InternalBuilder_add_empty_state(b), LAMBDA r :
           Ok([r.c EXCEPT !.nfa_to_dfa_id[nfa_id] = r.id,
                          !.uncompiled_nfa_ids = Append(@, nfa_id)], r.id))

\* compile_transition's loop over the representative bytes, from the i-th.
RECURSIVE compile_bytes(_, _, _, _, _, _)
compile_bytes(b, dfa_id, bytes, i, next_dfa_id, info) ==
    IF i > Len(bytes) THEN Ok(b, dfa_id)
    ELSE LET byte == bytes[i]
             newtrans == Transition_new(next_dfa_id, info)
             made == [b EXCEPT !.produced =
                         @ \cup {[sid |-> dfa_id, byte |-> byte, t |-> newtrans]}]
         IN IF ~InTable(b, TransitionCell(dfa_id, byte)) THEN OutOfBounds(made)
            ELSE IF Transition_state_id(OnePass_transition(b, dfa_id, byte)) = BitsOf(DEAD)
                 THEN compile_bytes(OnePass_set_transition(made, dfa_id, byte, newtrans),
                                    dfa_id, bytes, i + 1, next_dfa_id, info)
                 ELSE IF OnePass_transition(b, dfa_id, byte) # newtrans THEN Todo(made)
                      ELSE compile_bytes(made, dfa_id, bytes, i + 1, next_dfa_id, info)

compile_transition(b, dfa_id, trans, info) ==
    Try(IF b.nfa_to_dfa_id[trans.next] = DEAD
        THEN add_dfa_state_for_nfa_state(b, trans.next)
        ELSE Ok(b, b.nfa_to_dfa_id[trans.next]),
        LAMBDA r :
          IF ~Patterns_is_empty(r.c.matched) THEN Ok(r.c, dfa_id)
          ELSE compile_bytes(r.c, dfa_id,
                   ByteClasses_representatives(r.c.classes, trans.start, trans.end),
                   1, r.id, info))

RECURSIVE compile_sparse(_, _, _, _, _)
compile_sparse(b, dfa_id, transitions, i, info) ==
    IF i > Len(transitions) THEN Ok(b, dfa_id)
    ELSE Try(compile_transition(b, dfa_id, transitions[i], info), LAMBDA r :
           compile_sparse(r.c, dfa_id, transitions, i + 1, info))

\* seen.insert of every id of `ids` in turn: false if one was there.
RECURSIVE seen_insert_all(_, _, _)
seen_insert_all(seen, ids, i) ==
    IF i > Len(ids) THEN [ok |-> TRUE, seen |-> seen]
    ELSE IF ids[i] \in seen THEN [ok |-> FALSE, seen |-> seen]
         ELSE seen_insert_all(seen \cup {ids[i]}, ids, i + 1)

Push(b, ids, info) ==
    [b EXCEPT !.stack = @ \o [i \in 1 .. Len(ids) |-> [id |-> ids[i], info |-> info]]]

\* build's inner loop: the stack is popped until it is empty.
RECURSIVE expand(_, _)
expand(b, dfa_id) ==
    IF b.stack = <<>> THEN Ok(b, dfa_id)
    ELSE
      LET top == b.stack[Len(b.stack)]
          info == top.info
          state == b.nfa.states[top.id]
          popped == [b EXCEPT !.stack = SubSeq(@, 1, Len(@) - 1),
                              !.reached = IF state.kind = "Match" THEN @ + 1 ELSE @]
          Follow(ids, pushed, inf) ==
              LET ins == seen_insert_all(popped.seen, ids, 1)
              IN IF ~ins.ok THEN Todo([popped EXCEPT !.seen = ins.seen])
                 ELSE expand(Push([popped EXCEPT !.seen = ins.seen], pushed, inf), dfa_id)
      IN CASE state.kind = "ByteRange" ->
                Try(compile_transition(popped, dfa_id, state.trans, info), LAMBDA r :
                    expand(r.c, dfa_id))
           [] state.kind = "Sparse" ->
                Try(compile_sparse(popped, dfa_id, state.transitions, 1, info), LAMBDA r :
                    expand(r.c, dfa_id))
           [] state.kind = "Look" ->
                Follow(<<state.next>>, <<state.next>>, Info_look_insert(info, state.look))
           [] state.kind = "Union" ->
                Follow(Reverse(state.alternates), Reverse(state.alternates), info)
           [] state.kind = "BinaryUnion" ->
                Follow(<<state.alt1, state.alt2>>, <<state.alt2, state.alt1>>, info)
           [] state.kind = "Capture" ->
                IF state.next \in popped.seen THEN Todo(popped)
                ELSE IF ~Info_slot_ok(state.slot)
                     THEN Panic(Fails([popped EXCEPT !.seen = @ \cup {state.next}],
                                      "assertion failed: slot < MAX_SLOTS"))
                     ELSE Follow(<<state.next>>, <<state.next>>,
                                 Info_slot_insert(info, state.slot))
           [] state.kind = "Fail" -> expand(popped, dfa_id)
           [] state.kind = "Match" ->
                IF ~Patterns_is_empty(popped.matched) THEN Todo(popped)
                ELSE IF ~Patterns_insert_ok(state.pattern_id)
                THEN Panic(Fails(popped, "assertion failed: pid < Patterns::MAX"))
                ELSE LET matched == Patterns_insert(popped.matched, state.pattern_id)
                     IN Try(OnePass_set_pattern_info(
                                [popped EXCEPT !.matched = matched], dfa_id,
                                PatternInfo_set_info(
                                    PatternInfo_set_patterns(PatternInfo_empty, matched),
                                    info)),
                            LAMBDA r : expand(r.c, dfa_id))

\* build, up to its loop: the dead state and the state of the anchored start.
build_start(b) ==
    Try(InternalBuilder_add_empty_state(b), LAMBDA r :
        add_dfa_state_for_nfa_state(r.c, r.c.nfa.start_anchored))

\* The body of build's outer loop for the NFA state popped.
build_state(b) ==
    LET nfa_id == b.uncompiled_nfa_ids[Len(b.uncompiled_nfa_ids)]
        dfa_id == b.nfa_to_dfa_id[nfa_id]
    IN expand([b EXCEPT !.uncompiled_nfa_ids = SubSeq(@, 1, Len(@) - 1),
                        !.dfa_id = dfa_id,
                        !.matched = Patterns_empty,
                        !.seen = {},
                        !.produced = {},
                        !.reached = 0,
                        !.stack = Append(@, [id |-> nfa_id, info |-> Info_empty])],
              dfa_id)

(***************************************************************************)
(* The NFAs built from: state i of an NFA is states[i].  Byte 0 is `a`,    *)
(* byte 1 is `b`, byte 7 is `h`.                                           *)
(***************************************************************************)
Trans(start, end, next) == [start |-> start, end |-> end, next |-> next]
ThompsonNFA(states) == [states |-> states, start_anchored |-> 1]
\* a
NFA_a == ThompsonNFA(<<ByteRange(0, 0, 2), ThompsonMatch(0)>>)
\* ab
NFA_ab == ThompsonNFA(<<ByteRange(0, 0, 2), ByteRange(1, 1, 3), ThompsonMatch(0)>>)
\* ah
NFA_ah == ThompsonNFA(<<ByteRange(0, 0, 2), ByteRange(7, 7, 3), ThompsonMatch(0)>>)
\* [e-h][a-d]
NFA_eh_ad == ThompsonNFA(<<ByteRange(4, 7, 2), ByteRange(0, 3, 3), ThompsonMatch(0)>>)
\* a|ba, the start state sparse
NFA_a_or_ba ==
    ThompsonNFA(<<Sparse(<<Trans(0, 0, 2), Trans(1, 1, 3)>>), ThompsonMatch(0),
                  ByteRange(0, 0, 2)>>)
\* a|baaa, the start state sparse
NFA_a_or_baaa ==
    ThompsonNFA(<<Sparse(<<Trans(0, 0, 2), Trans(1, 1, 3)>>), ThompsonMatch(0),
                  ByteRange(0, 0, 4), ByteRange(0, 0, 5), ByteRange(0, 0, 2)>>)
\* a|b
NFA_a_or_b ==
    ThompsonNFA(<<ThompsonUnion(<<2, 3>>), ByteRange(0, 0, 4), ByteRange(1, 1, 4),
                  ThompsonMatch(0)>>)
\* a(?:b|b): two ways to the same byte.
NFA_a_b_or_b ==
    ThompsonNFA(<<ByteRange(0, 0, 2), BinaryUnion(3, 4), ByteRange(1, 1, 5),
                  ByteRange(1, 1, 6), ThompsonMatch(0), ThompsonMatch(0)>>)
\* Two patterns, a and a: two Match states in one closure.
NFA_a_and_a ==
    ThompsonNFA(<<ByteRange(0, 0, 2), ThompsonUnion(<<3, 4>>), ThompsonMatch(0),
                  ThompsonMatch(1)>>)
\* a$
NFA_a_end == ThompsonNFA(<<ByteRange(0, 0, 2), Look(1, 3), ThompsonMatch(0)>>)
\* [^\x00-\xFF]
NFA_fail == ThompsonNFA(<<Fail>>)
\* (a)(a)...(a) with `groups` explicit groups: the implicit group has the
\* slots 0 and 1, the explicit group g the slots 2g and 2g + 1.
GroupStates(groups) ==
    [i \in 1 .. (3 * groups) |->
        LET g == (i + 2) \div 3
            first == 3 * (g - 1) + 2
        IN CASE i % 3 = 1 -> Capture(first + 1, 2 * g)
             [] i % 3 = 2 -> ByteRange(0, 0, first + 2)
             [] OTHER -> Capture(first + 3, 2 * g + 1)]
NFA_groups(groups) ==
    ThompsonNFA(<<Capture(2, 0)>> \o GroupStates(groups)
                \o <<Capture(3 * groups + 3, 1), ThompsonMatch(0)>>)
\* The number of explicit capture slots of the pattern of an NFA.
ExplicitSlots(nfa) ==
    Cardinality({nfa.states[i].slot :
                    i \in {j \in DOMAIN nfa.states : nfa.states[j].kind = "Capture"}}
                \ {0, 1})
\* Numbers of explicit groups: within 24 slots by absolute index, within 24
\* explicit slots, beyond 24 explicit slots.
GroupCounts == {1, 11, 12, 13}

OnePassNFAs ==
    {NFA_a, NFA_ab, NFA_ah, NFA_eh_ad, NFA_a_or_ba, NFA_a_or_baaa, NFA_a_or_b, NFA_a_b_or_b,
     NFA_a_and_a, NFA_a_end, NFA_fail}
        \cup {NFA_groups(g) : g \in GroupCounts}
\* Config::size_limit in bytes: room for two states of four cells.
SmallSizeLimit == 64
OnePassConfigs ==
    [byte_classes : BOOLEAN, size_limit : {None, Some(SmallSizeLimit)}]

(***************************************************************************)
(* The state machine of a build: Builder::build_from_nfa, and              *)
(* InternalBuilder::new(config, nfa).build().                              *)
(***************************************************************************)
OnePassInit ==
    /\ prog = Program_a_ab_ab
    /\ \E config \in OnePassConfigs, nfa \in OnePassNFAs :
          one = [pc |-> "builder", config |-> config, nfa |-> nfa]
    /\ sdfa = NoSparse
    /\ det = NoDeterminizer
    /\ ov = NoOverlapping
    /\ inert = InertDFA_new(DefaultConfig)
    /\ cache = Cache_empty
    /\ srch = Idle
    /\ ref = [c |-> cache, s |-> Idle]
    /\ last = NoOp
    /\ meta = MetaIdle(None)
    /\ it = NoIter

OnePassUnchanged == UNCHANGED <<inert, cache, srch, ref, last, meta, it, prog, ov, det, sdfa>>

Ended(r) == [r.c EXCEPT !.pc = IF r.res = "err" THEN "failed" ELSE "panicked"]

\* Builder::build_from_nfa
BuildFromNFA ==
    /\ one.pc = "builder"
    /\ one' = [one EXCEPT !.pc = "panicked", !.err = [kind |-> "not yet implemented"]]
    /\ OnePassUnchanged

\* InternalBuilder::new
InternalBuilderNew ==
    /\ one.pc = "builder"
    /\ one' = InternalBuilder_new(one.config, one.nfa)
    /\ OnePassUnchanged

\* build: the dead state and the start state are added.
BuildStart ==
    /\ one.pc = "new"
    /\ \E r \in {build_start(one)} :
          one' = IF r.res = "ok" THEN [r.c EXCEPT !.pc = "building"] ELSE Ended(r)
    /\ OnePassUnchanged

\* build: one NFA state popped from uncompiled_nfa_ids and compiled.
BuildState ==
    /\ one.pc = "building"
    /\ one.uncompiled_nfa_ids # <<>>
    /\ \E r \in {build_state(one)} :
          one' = IF r.res = "ok" THEN r.c ELSE Ended(r)
    /\ OnePassUnchanged

\* build: nothing is left to compile; the DFA is returned.
BuildFinish ==
    /\ one.pc = "building"
    /\ one.uncompiled_nfa_ids = <<>>
    /\ one' = [one EXCEPT !.pc = "built"]
    /\ OnePassUnchanged

OnePassNext ==
    \/ BuildFromNFA
    \/ InternalBuilderNew
    \/ BuildStart
    \/ BuildState
    \/ BuildFinish

SpecOnePass == OnePassInit /\ [][OnePassNext]_vars

(***************************************************************************)
(* The cells of the one-pass DFA by themselves: an Info is put together    *)
(* with slot_insert and look_insert, a Transition is made of it and of a   *)
(* StateID with Transition::new, and set_state_id is called on it.         *)
(***************************************************************************)
\* Capture slots inserted: the least, the greatest allowed, and one beyond.
CellSlots == {0, 1, MAX_SLOTS - 1, MAX_SLOTS}
\* Look-around assertions inserted: the first and the last of the eight.
CellLooks == {0, 7}
CellStateIDs == {DEAD, 1, 12, StateID_MAX}

TransitionInit ==
    /\ prog = Program_a_ab_ab
    /\ one = [pc |-> "info", info |-> Info_empty, slots |-> {}, looks |-> {}]
    /\ sdfa = NoSparse
    /\ det = NoDeterminizer
    /\ ov = NoOverlapping
    /\ inert = InertDFA_new(DefaultConfig)
    /\ cache = Cache_empty
    /\ srch = Idle
    /\ ref = [c |-> cache, s |-> Idle]
    /\ last = NoOp
    /\ meta = MetaIdle(None)
    /\ it = NoIter

\* Info::slot_insert
InfoSlotInsert(slot) ==
    /\ one.pc = "info"
    /\ one' = IF Info_slot_ok(slot)
              THEN [one EXCEPT !.info = Info_slot_insert(@, slot), !.slots = @ \cup {slot}]
              ELSE [one EXCEPT !.pc = "panicked"]
    /\ OnePassUnchanged

\* Info::look_insert
InfoLookInsert(look) ==
    /\ one.pc = "info"
    /\ one' = [one EXCEPT !.info = Info_look_insert(@, look), !.looks = @ \cup {look}]
    /\ OnePassUnchanged

\* Transition::new
TransitionNew(sid) ==
    /\ one.pc = "info"
    /\ one' = [pc |-> "cell", info |-> one.info, slots |-> one.slots,
               looks |-> one.looks, sid |-> sid,
               cell |-> Transition_new(sid, one.info)]
    /\ OnePassUnchanged

\* Transition::set_state_id
TransitionSetStateID(sid) ==
    /\ one.pc = "cell"
    /\ one' = [pc |-> "set", info |-> one.info, slots |-> one.slots,
               looks |-> one.looks, was |-> one.sid, sid |-> sid,
               cell |-> Transition_set_state_id(one.cell, sid)]
    /\ OnePassUnchanged

TransitionNext ==
    \/ \E slot \in CellSlots : InfoSlotInsert(slot)
    \/ \E look \in CellLooks : InfoLookInsert(look)
    \/ \E sid \in CellStateIDs : TransitionNew(sid)
    \/ \E sid \in CellStateIDs : TransitionSetStateID(sid)

SpecTransition == TransitionInit /\ [][TransitionNext]_vars

(***************************************************************************)
(* Properties of the lazy DFA's cache.                                     *)
(***************************************************************************)
ClearBound == inert.minimum_cache_clear_count
StepOps == {"next_state", "next_eoi_state"}

StepMissed == last.op \in StepOps /\ last.miss
\* The states a clear left in the cache besides the three sentinels.
KeptAtClear == SubSeq(cache.at_clear.states, 4, Len(cache.at_clear.states))
OriginID == cache.states_to_id[last.from]

\* C2: a cache clear provoked while next_state computes a successor keeps
\* exactly one previously cached state, the state the step originated from;
\* after the step that state is in the cache again, with its start tag kept,
\* and the transition on the step's unit is recorded from it to the new
\* successor.
C2_ClearKeepsOrigin ==
    (StepMissed /\ last.res = "ok" /\ cache.n_clears >= 1) =>
        /\ KeptAtClear = <<last.from>>
        /\ last.from \in DOMAIN cache.states_to_id
        /\ is_start(OriginID) = is_start(last.current)
        /\ cache.trans[as_usize_untagged(OriginID) + classes_get(last.unit) + 1]
              = last.id

\* A clear for want of memory, where the origin was saved and kept.
C2_Witness ==
    /\ StepMissed /\ last.res = "ok" /\ cache.n_clears = 1
    /\ KeptAtClear = <<last.from>>
    /\ is_start(last.current)

\* A step that cleared the cache and hit set_transition's assertion.
C2_StepPanicked == StepMissed /\ last.res = "panic" /\ cache.n_clears >= 1

\* Row `index` of the table `trans` is a state all of whose transitions,
\* the end-of-input one included, lead to `id`.
LoopsTo(trans, index, id) ==
    /\ Len(trans) >= (index + 1) * stride
    /\ \A unit \in representatives : trans[index * stride + unit + 1] = id

\* C3: as clear_cache leaves the cache (on creation's init_cache, on reset
\* and on every clear), every entry of the start table is the unknown
\* sentinel and the sentinels unknown, dead and quit are the states at IDs
\* 0, stride and 2*stride.
C3_ClearReinstalls ==
    LET left == IF cache.at_clear # None THEN cache.at_clear ELSE cache
    IN (inert.built /\ (cache.at_clear # None \/ last.op = "none")) =>
        /\ Len(left.starts) = StartCount
        /\ \A i \in 1 .. StartCount : left.starts[i] = unknown_id
        /\ as_usize_untagged(unknown_id) = 0
        /\ as_usize_untagged(dead_id) = stride
        /\ as_usize_untagged(quit_id) = 2 * stride
        /\ Len(left.states) >= 3
        /\ LoopsTo(left.trans, 0, unknown_id)
        /\ LoopsTo(left.trans, 1, dead_id)
        /\ LoopsTo(left.trans, 2, quit_id)
        /\ left.states_to_id[State_dead] = dead_id

\* A clear in the middle of a search that had a start state computed.
C3_Witness ==
    /\ StepMissed /\ last.res = "ok" /\ cache.n_clears = 1
    /\ cache.at_clear # None
    /\ \A i \in 1 .. StartCount : cache.starts[i] = unknown_id
    /\ ~is_start(last.current)

\* C4: a search on a cache that earlier searches used, or that was used and
\* then reset, returns what the same search returns on a freshly created
\* cache: the same match or the same error.
C4_CacheInvariance ==
    srch.pc \in {"done", "panic"} => srch.result = ref.s.result

\* A second search on a shared cache ended as the fresh-cache search did.
C4_Witness ==
    /\ srch.pc = "done" /\ srch.searches = 2 /\ last.op \in StepOps
    /\ srch.result = ref.s.result
    /\ srch.result.kind = "Ok" /\ srch.result.out # None

\* The search gave up for the clear-count that earlier searches ran up, where
\* the fresh-cache search goes on.
C4_GaveUpForEarlierClears ==
    /\ srch.pc = "done" /\ srch.result.kind = "GaveUp"
    /\ cache.clears >= 1
    /\ ref.s.pc = "scan" /\ ref.c.clear_count = 0

StateOf(id) == cache.states[(as_usize_untagged(id) \div stride) + 1]

\* C5: when next_state misses the cache and succeeds, the ID it returns is
\* the ID of the state one powerset-construction step leads to from the
\* origin's NFA states on that unit, that state is in the cache, and the
\* cache's transition cell for the origin and the unit's class holds the ID.
C5_MissInstallsSuccessor ==
    (StepMissed /\ last.res = "ok") =>
        LET successor == determinize_next(last.from, last.unit)
        IN /\ is_valid(cache, last.id)
           /\ StateOf(last.id) = successor
           /\ successor \in DOMAIN cache.states_to_id
           /\ cache.states_to_id[successor] = last.id
           /\ last.from \in DOMAIN cache.states_to_id
           /\ cache.trans[as_usize_untagged(OriginID) + classes_get(last.unit) + 1]
                 = last.id

\* A miss that added a match state, with no clear.
C5_Witness ==
    /\ StepMissed /\ last.res = "ok" /\ cache.n_clears = 0
    /\ is_match(last.id)
    /\ StateOf(last.id) = determinize_next(last.from, last.unit)
    /\ cache.trans[as_usize_untagged(last.current) + classes_get(last.unit) + 1]
          = last.id

\* C6: whenever a scan takes a transition on a configured quit byte, the
\* state it enters is the quit state and the search returns the error
\* Quit{byte, offset} naming that byte and its offset in the haystack.
C6_QuitByteQuits ==
    (last.op = "next_state" /\ last.res = "ok" /\ last.unit \in inert.quitset) =>
        /\ last.id = quit_id
        /\ srch.pc = "done"
        /\ srch.result = Quit(last.unit, last.at)

\* The loop of find_fwd_imp met the quit byte with no match seen yet.
C6_Witness ==
    /\ last.op = "next_state" /\ last.unit \in inert.quitset
    /\ last.id = quit_id
    /\ srch.pc = "done" /\ srch.result = Quit(QuitByte, srch.at)
    /\ srch.at >= 1

\* The quit byte was the byte at the end of the span: eoi_fwd entered the
\* quit state and the search returned Ok.
C6_QuitAtSpanEndIsOk ==
    /\ last.op = "next_state" /\ last.unit \in inert.quitset
    /\ last.id = quit_id /\ srch.sid = quit_id
    /\ srch.pc = "done" /\ srch.result = ResultOk(None)

\* C7: when an add_state call has returned successfully, whether or not it
\* cleared the cache and re-added a saved state first, the cache's
\* memory_usage() is at most the effective cache capacity; it is so too
\* when the operation that added the state has returned.
C7_AddWithinCapacity ==
    inert.built =>
        /\ cache.max_add <= inert.cache_capacity
        /\ last.res = "ok" => memory_usage(cache) <= inert.cache_capacity

\* The addition after a clear that re-added the saved state, at the minimum
\* capacity.
C7_Witness ==
    /\ StepMissed /\ last.res = "ok" /\ cache.n_clears = 1
    /\ KeptAtClear = <<last.from>>
    /\ cache.max_add = memory_usage([cache EXCEPT !.scratch_cap = 0])
    /\ cache.max_add <= inert.cache_capacity
    /\ inert.cache_capacity = minimum_cache_capacity

\* C8: with minimum_cache_clear_count = Some(n) the cache is cleared at most
\* n times between resets; with n = 0 it is never cleared, and an operation
\* that needs a clear fails.
C8_ClearsBounded ==
    ClearBound # None =>
        /\ cache.clears <= ClearBound.count
        /\ cache.clear_count <= ClearBound.count
        /\ ClearBound.count = 0 =>
              /\ cache.n_clears = 0
              /\ cache.tried # None =>
                    /\ cache.tried.gave_up
                    /\ last.res = "err"
                    /\ srch.result = gave_up(srch.at)

\* With n = 0, a step that needed a clear.
C8_Witness ==
    /\ ClearBound = Some(0)
    /\ StepMissed /\ cache.tried # None /\ last.res = "err"
    /\ cache.clears = 0 /\ srch.result = gave_up(last.at)

\* C9: a configured capacity below the minimum, with the capacity check
\* skipped, builds a DFA whose capacity is the minimum; at that capacity the
\* sentinels, one saved state and one new state fit: a step that clears the
\* cache re-adds the saved state and adds the successor without failing and
\* without a second clear, within the capacity, and nothing panics.
C9_MinimumSuffices ==
    (/\ inert.config.cache_capacity # None
     /\ inert.config.cache_capacity.bytes < minimum_cache_capacity
     /\ inert.config.skip_cache_capacity_check) =>
        /\ inert.built
        /\ inert.cache_capacity = minimum_cache_capacity
        /\ srch.pc # "panic" /\ last.res # "panic"
        /\ (StepMissed /\ cache.tried # None /\ ~cache.tried.gave_up) =>
              /\ last.res = "ok"
              /\ cache.states = <<State_dead, State_dead, State_dead, last.from,
                                  determinize_next(last.from, last.unit)>>
              /\ Len(cache.states) = MIN_STATES
              /\ cache.n_clears = 1
              /\ memory_usage(cache) <= inert.cache_capacity

\* At the raised capacity and with one clear allowed, the clear of a step
\* from a start state.
C9_Witness ==
    /\ inert.config.cache_capacity = [kind |-> "Some", bytes |-> 0]
    /\ inert.cache_capacity = minimum_cache_capacity
    /\ ClearBound = Some(1)
    /\ StepMissed /\ last.res = "ok" /\ cache.n_clears = 1
    /\ Len(cache.states) = MIN_STATES

(***************************************************************************)
(* Properties of the meta engine.                                          *)
(***************************************************************************)
DFAs == {"dfa", "hybrid"}
Fallbacks == {"onepass", "backtrack", "pikevm"}
\* What try_search_nofail returns to the operation that called it.
FallbackResult ==
    LET y == try_search_nofail(meta.core, meta.input, meta.slow).res
        z == try_search_slots_nofail(meta.core, meta.input, meta.slots_len,
                                     meta.slow).res
    IN IF meta.op = "try_search_slots" THEN z
       ELSE IF meta.op = "try_search_half" /\ y.ok THEN OkR(HalfOf(y.value))
       ELSE y
DFAFailed == meta.pc = "done" /\ meta.ran # <<>> /\ meta.ran[1] \in DFAs /\ ~meta.fast.ok

\* C10: when the full DFA or the lazy DFA fails with an error of kind Quit
\* or GaveUp, the search is run again with a fallback engine and what that
\* engine returns is returned; an error of another kind is returned to the
\* caller and no fallback engine runs.
C10_FallbackOnQuitOrGaveUp ==
    DFAFailed =>
        IF meta.fast.err.kind \in {"Quit", "GaveUp"}
        THEN /\ Len(meta.ran) = 2 /\ meta.ran[2] \in Fallbacks
             /\ meta.result = FallbackResult
             /\ (meta.slow.found # None /\ meta.ran[2] # "backtrack")
                    => (meta.result.ok /\ meta.result.value # None)
        ELSE /\ Len(meta.ran) = 1
             /\ meta.result = ErrR(meta.fast.err)

\* The lazy DFA gave up and the PikeVM's match was returned.
C10_Witness ==
    /\ DFAFailed /\ meta.fast.err.kind = "GaveUp"
    /\ meta.ran = <<"hybrid", "pikevm">>
    /\ meta.op = "try_search"
    /\ meta.slow.found # None
    /\ meta.result = OkR(meta.slow.found)

LastRan == meta.ran[Len(meta.ran)]
\* The search ended in try_search_nofail or try_search_slots_nofail.
FallbackRan == meta.pc = "done" /\ meta.ran # <<>> /\ LastRan \in Fallbacks
\* The input that fallback search was given.
FallbackInput == IF meta.rescan # None THEN meta.rescan ELSE meta.input
AnchoredWithOnePass ==
    meta.pc = "done" /\ is_anchored(meta.input.anchored) /\ meta.core.onepass
BuiltDFA == IF meta.core.dfa THEN "dfa" ELSE "hybrid"

\* C11 as stated: for a search anchored at the start or restricted to a
\* pattern, when the one-pass DFA was built it is the engine the meta engine
\* runs, before the full DFA and the lazy DFA.
C11_OnePassBeforeDFAs ==
    AnchoredWithOnePass => (meta.ran # <<>> /\ meta.ran[1] = "onepass")

\* C11 (as the code has it): for such a search with the one-pass DFA built,
\* the full DFA or the lazy DFA, when built, is tried first; the one-pass DFA
\* is the engine of the fallback path, ahead of the bounded backtracker and
\* the PikeVM, which never run.
C11_OnePassFirstOnFallback ==
    AnchoredWithOnePass =>
        /\ (meta.core.dfa \/ meta.core.hybrid) => meta.ran[1] = BuiltDFA
        /\ ~(meta.core.dfa \/ meta.core.hybrid) => meta.ran = <<"onepass">>
        /\ \A i \in DOMAIN meta.ran : meta.ran[i] \notin {"backtrack", "pikevm"}
        /\ (DFAFailed /\ is_err_quit_or_gaveup(meta.fast.err))
              => meta.ran = <<BuiltDFA, "onepass">>

\* An anchored search where the lazy DFA gave up and the one-pass DFA, with
\* the backtracker built too, found the match.
C11_Witness ==
    /\ AnchoredWithOnePass /\ meta.core.backtrack /\ ~meta.input.earliest
    /\ span_len(meta.input) <= max_haystack_len
    /\ meta.op = "try_search"
    /\ meta.ran = <<"hybrid", "onepass">>
    /\ meta.result.ok /\ meta.result.value # None

\* C12: on the fallback path the bounded backtracker runs only on a span no
\* longer than its max_haystack_len; on a longer span, where the one-pass DFA
\* does not apply, the PikeVM runs; and the fallback path never returns
\* HaystackTooLong.
C12_BacktrackOnlyIfFits ==
    FallbackRan =>
        /\ LastRan = "backtrack" => span_len(FallbackInput) <= max_haystack_len
        /\ (span_len(FallbackInput) > max_haystack_len
               /\ ~OnePass_get(meta.core, FallbackInput)) => LastRan = "pikevm"
        /\ meta.result.ok

\* A span longer than the built backtracker's bound, searched by the PikeVM.
C12_Witness ==
    /\ FallbackRan /\ meta.core.backtrack /\ ~meta.input.earliest
    /\ span_len(FallbackInput) > max_haystack_len
    /\ LastRan = "pikevm"
    /\ meta.result.ok /\ meta.result.value # None

\* C13: no search of the meta engine returns an error: a Quit or GaveUp of
\* the DFA that was tried is followed by a fallback engine's search, whose
\* result is returned, and that search does not fail.
C13_NoSearchError ==
    meta.pc = "done" =>
        /\ meta.result.ok
        /\ DFAFailed => (Len(meta.ran) = 2 /\ LastRan \in Fallbacks
                            /\ meta.result = FallbackResult)

\* The full DFA quit and the PikeVM's answer was returned.
C13_Witness ==
    /\ DFAFailed /\ meta.errs = "engine" /\ meta.fast.err.kind = "Quit"
    /\ meta.ran = <<"dfa", "pikevm">>
    /\ meta.result.ok

\* A capture search where the DFA that was tried found the match.
DFAMatch ==
    /\ meta.pc = "done" /\ meta.op = "try_search_slots"
    /\ is_capture_search_needed(meta.slots_len)
    /\ meta.ran # <<>> /\ meta.ran[1] \in DFAs
    /\ meta.fast.ok /\ meta.fast.value # None

JustYielded == it.kind # "none" /\ Yielded(it.out) # None
\* One unit past `at`: one byte, or one codepoint in UTF-8 mode.
UnitPast(at) == IF it.search.utf8 THEN next_utf8(it.search.text, at) ELSE at + 1
\* Where the claim has the next search begin after the match m.
StartAfter(m) == IF is_empty(m) THEN UnitPast(m.end) ELSE m.end

SearchedAfterYield ==
    /\ it.kind \in {"TryMatches", "TryCaptures"}
    /\ it.before # None
    /\ it.starts # <<>>
    /\ ~(it.out # None /\ ~it.out.ok /\ Len(it.starts) = 1)
\* What the first search of that call returned.
FirstFound == find(it.re, Search_set_start(it.search, it.starts[1]))
\* The first result was dropped and the search run again past the end of
\* the match before; TryCaptures ends the iteration instead when the
\* advanced start is beyond the end of the span.
Retried ==
    /\ Yielded(it.out) # FirstFound
    /\ \/ Len(it.starts) = 2 /\ it.starts[2] > it.before.end
       \/ /\ it.kind = "TryCaptures" /\ Len(it.starts) = 1 /\ it.out = None
          /\ UnitPast(it.before.end) > it.search.end

\* C16 (as the spec has it): if the search following a yielded match m
\* returns a match that starts at m.end, the match is discarded and the
\* search retried past m.end.
C16_RetryIfStartsAtEnd ==
    (SearchedAfterYield /\ FirstFound # None /\ FirstFound.start = it.before.end)
        => Retried
\* C16 (as the code has it): if the search following a yielded match m
\* returns an empty match at m.end, the match is discarded and the search
\* retried past m.end (TryCaptures ends the iteration without another search
\* when one unit past m.end is beyond the end of the span); a match that
\* starts at m.end and is not empty is yielded.
C16_RetryIfEmptyAtEnd ==
    (SearchedAfterYield /\ FirstFound # None /\ FirstFound.start = it.before.end)
        => IF is_empty(FirstFound) THEN Retried
           ELSE Len(it.starts) = 1 /\ Yielded(it.out) = FirstFound
\* An empty match at the end of the match before was dropped and the second
\* search yielded a match further on.
C16_Witness ==
    /\ SearchedAfterYield /\ FirstFound # None
    /\ is_empty(FirstFound) /\ FirstFound.start = it.before.end
    /\ ~is_empty(it.before)
    /\ Len(it.starts) = 2 /\ JustYielded /\ it.out.value.start > it.before.end

\* The iteration of the regex that matches the empty string, in UTF-8 mode,
\* has come to its end.
EmptyRegexIterated ==
    /\ it.kind \in NonOverlapping
    /\ it.search.utf8
    /\ it.re = EmptyRegex(it.search.text)
    /\ it.calls > 0 /\ it.out = None
\* The offset of a half match, the end of a match.
OffsetOf(m) == IF m.kind = "HalfMatch" THEN m.offset ELSE m.end
OffsetsYielded == {OffsetOf(it.yielded[i]) : i \in 1 .. Len(it.yielded)}
AllEmpty ==
    \A i \in 1 .. Len(it.yielded) :
        it.yielded[i].kind = "Match" => is_empty(it.yielded[i])
NoneInsideCodepoint ==
    \A at \in OffsetsYielded : is_char_boundary(it.search.text, at)

ReportedSoFar ==
    SubSeq(it.reported, 1, IF it.asked < Len(it.reported) THEN it.asked
                           ELSE Len(it.reported))
\* An empty match at an offset inside a codepoint.
SplitsCodepoint(m) == is_empty(m) /\ ~is_char_boundary(it.search.text, m.end)

\* C18: the overlapping iterator has yielded the matches that the
\* overlapping searches made so far have reported, in their order, without
\* the empty matches that split a codepoint if the search is in UTF-8 mode;
\* so an empty match at the end of the match before it is yielded.
C18_YieldsReported ==
    it.kind = "TryOverlappingMatches" =>
        LET Kept(m) == ~(it.search.utf8 /\ SplitsCodepoint(m))
        IN it.yielded = SelectSeq(ReportedSoFar, Kept)
\* In UTF-8 mode the iterator has dropped an empty match inside a codepoint
\* and has yielded a match and, after it, the empty match at its end.
C18_Witness ==
    /\ it.kind = "TryOverlappingMatches" /\ it.search.utf8
    /\ \E i \in 1 .. Len(ReportedSoFar) : SplitsCodepoint(ReportedSoFar[i])
    /\ \E i \in 1 .. Len(it.yielded) - 1 :
          /\ ~is_empty(it.yielded[i])
          /\ is_empty(it.yielded[i + 1])
          /\ it.yielded[i + 1].end = it.yielded[i].end

(***************************************************************************)
(* Properties of the overlapping search.                                   *)
(***************************************************************************)
\* Overlapping searches of the whole haystack Samwise for Samwise|Sam under
\* MatchKind::All, none of which failed.
SearchingSamwise ==
    /\ ov.pc = "called"
    /\ prog = Program_Samwise_Sam
    /\ ov.hay = Samwise /\ ov.end = Len(Samwise)

\* C19: for the pattern Samwise|Sam with MatchKind::All and the haystack
\* Samwise, the first overlapping forward search reports the half match of
\* pattern 0 at offset 3 and the second the one of pattern 0 at offset 7.
C19_SamThenSamwise ==
    SearchingSamwise =>
        /\ ov.result.kind = "Ok"
        /\ ov.calls = 1 => ov.out = HalfMatch(0, 3)
        /\ ov.calls = 2 => ov.out = HalfMatch(0, 7)
        /\ ov.calls >= 2 =>
               /\ Len(ov.found) >= 2
               /\ ov.found[1] = HalfMatch(0, 3)
               /\ ov.found[2] = HalfMatch(0, 7)
\* The second search of Samwise has returned.
C19_Witness ==
    /\ SearchingSamwise /\ ov.calls = 2
    /\ ov.found = <<HalfMatch(0, 3), HalfMatch(0, 7)>>

(***************************************************************************)
(* Properties of searches anchored at a pattern.                           *)
(***************************************************************************)
\* Every match of a[ab][ab] is three bytes long: a half match at
\* `offset` starts at offset - 3.
PatternLen == 3
\* A forward search of the lazy DFA anchored at a pattern has returned a
\* match.
LazyReturnedAnchored ==
    /\ srch.pc = "done" /\ srch.pattern_id # None
    /\ srch.result.kind = "Ok" /\ srch.result.out # None
\* The strategy of the prefilter has returned a match to a search anchored
\* at a pattern.
PreReturnedAnchored ==
    /\ meta.pc = "done" /\ meta.core = PreStrategy
    /\ meta.input.anchored.kind = "Pattern"
    /\ meta.result.value # None

\* C20: a match returned by a search that is anchored at the pattern p has
\* the pattern p and starts at the start of the span searched.
C20_AnchoredPattern ==
    /\ LazyReturnedAnchored =>
          /\ srch.result.out.pattern = srch.pattern_id.id
          /\ srch.result.out.offset - PatternLen = srch.start
    /\ PreReturnedAnchored =>
          /\ meta.result.value.pattern = meta.input.anchored.pid
          /\ meta.result.value.start = meta.input.start
\* The lazy DFA has returned a match to a search anchored at pattern 0 that
\* started at offset 1.
C20_Witness ==
    /\ LazyReturnedAnchored
    /\ srch.pattern_id = PatternID(0)
    /\ srch.start = 1
\* The strategy of the prefilter has returned a match of pattern 0 to a
\* search anchored at pattern 1.
C20_PreReturnedOtherPattern ==
    /\ PreReturnedAnchored
    /\ meta.input.anchored.pid = 1
    /\ meta.result.value.pattern = 0

(***************************************************************************)
(* Properties of determinization and minimization.                         *)
(***************************************************************************)
\* A dense DFA has been produced: by build, or by the minimizer after it.
Produced == det.pc \in {"built", "minimizing", "minimized"}
Minimized == det.pc = "minimized"
\* Whether the state a row was added for is a match state.
Accepting(id) == det.builder_states[det.dfa.rows[id + 1].origin + 1].is_match

\* The transitions of the dense DFA's dead state, state 0, on every byte.
DenseDeadLoops == \A b \in DenseBytes : det.dfa.rows[1].next[b] = 0
\* The transitions of the lazy DFA's dead state on every class, the class of
\* the end of input included.
LazyDeadLoops ==
    \A unit \in representatives :
        cache.trans[as_usize_untagged(dead_id) + classes_get(unit) + 1] = dead_id

\* C21: in the dense DFA that determinization builds (and that the minimizer
\* rewrites), and in the cache of the lazy DFA whenever it holds states, every
\* transition out of the dead state leads to the dead state.
C21_DeadStaysDead ==
    /\ det.pc # "none" => DenseDeadLoops
    /\ (det.pc = "none" /\ cache.trans # <<>>) => LazyDeadLoops
\* A search of the lazy DFA has cleared the cache and has finished: the dead
\* state of the cache as the clear left it leads to itself.
C21_Witness ==
    /\ det.pc = "none"
    /\ cache.clears > 0
    /\ srch.pc = "done"
    /\ LazyDeadLoops
\* Determinization has produced a DFA with a state that leads to the dead state.
C21_DenseWitness ==
    /\ det.pc = "built"
    /\ \E id \in DFA_ids(det.dfa) \ {0} : \E b \in DenseBytes :
          det.dfa.rows[id + 1].next[b] = 0
    /\ DenseDeadLoops

\* The range check tells a match state in every state of the DFA.
RangeTellsMatch ==
    \A id \in DFA_ids(det.dfa) : DFA_is_match_state(det.dfa, id) <=> Accepting(id)

\* C22: after minimization a state ID lies in 1..=max_match_state exactly if
\* the state is a match state.
C22_MatchRange == Minimized => RangeTellsMatch
\* The same of the DFA as build returns it, before minimization.
C22_MatchRangeBuilt == det.pc = "built" => RangeTellsMatch
\* A DFA was minimized to fewer states and the range check is right.
C22_Witness ==
    /\ Minimized
    /\ DFA_len(det.dfa) < DFA_len(det.before)
    /\ det.dfa.max_match >= 1
    /\ RangeTellsMatch
\* The minimized DFA's start state, not a match state, lies in the range.
C22_StartInMatchRange ==
    /\ Minimized
    /\ DFA_is_match_state(det.dfa, det.dfa.start)
    /\ ~Accepting(det.dfa.start)

\* The byte sequences of at most MaxWord bytes.
RECURSIVE WordsOfLen(_)
WordsOfLen(n) ==
    IF n = 0 THEN {<<>>}
    ELSE {Append(w, b) : w \in WordsOfLen(n - 1), b \in DenseBytes}
RECURSIVE WordsUpTo(_)
WordsUpTo(n) == IF n = 0 THEN WordsOfLen(0) ELSE WordsOfLen(n) \cup WordsUpTo(n - 1)
Words == WordsUpTo(MaxWord)
\* The state a DFA is in after a byte sequence, from its start state.
RECURSIVE StateAfter(_, _, _, _)
StateAfter(dfa, id, word, i) ==
    IF i > Len(word) THEN id
    ELSE StateAfter(dfa, dfa.rows[id + 1].next[word[i]], word, i + 1)
\* The DFA's answer: whether that state passes the match check.
Answer(dfa, word) == DFA_is_match_state(dfa, StateAfter(dfa, dfa.start, word, 1))
\* The ID the minimizer gives to the representative of an old state.
NewID(id) == remapped(det.before, det.partitions, id)
\* Every old state's transitions are those of its representative, in new IDs.
RemappedToRepresentatives ==
    /\ det.dfa.start = NewID(det.before.start)
    /\ \A id \in DFA_ids(det.before) : \A b \in DenseBytes :
          det.dfa.rows[NewID(id) + 1].next[b] = NewID(det.before.rows[id + 1].next[b])

\* C23: minimization remaps every state to its partition's representative,
\* and the minimized DFA answers match or no match for every byte sequence
\* as the DFA before minimization does.
C23_SameAnswers ==
    Minimized =>
        /\ RemappedToRepresentatives
        /\ \A w \in Words : Answer(det.dfa, w) = Answer(det.before, w)
\* The remapping alone.
C23_Remapped == Minimized => RemappedToRepresentatives
\* The answers told by the state reached instead of by the range check.
C23_SameStatesReached ==
    Minimized =>
        \A w \in Words :
            Accepting(StateAfter(det.dfa, det.dfa.start, w, 1))
                = DFA_is_match_state(det.before, StateAfter(det.before, det.before.start, w, 1))
\* A DFA was minimized to fewer states and answers as before.
C23_Witness ==
    /\ Minimized
    /\ DFA_len(det.dfa) < DFA_len(det.before)
    /\ RemappedToRepresentatives
    /\ \A w \in Words : Answer(det.dfa, w) = Answer(det.before, w)
    /\ \E w \in Words : Answer(det.dfa, w)
\* The minimized DFA matches the empty sequence, which the DFA before did not.
C23_MatchesEmpty ==
    /\ Minimized
    /\ Answer(det.dfa, <<>>)
    /\ ~Answer(det.before, <<>>)

\* The states the determinizer has added, with the closures they were made of.
Added == IF det.pc \in {"new", "building", "built", "failed"} THEN Elements(det.added) ELSE {}
\* The place of the first Match state in a closure, or past its end.
FirstMatch(set) ==
    IF \E i \in 1 .. Len(set) : NFA[set[i]].kind = "Match"
    THEN CHOOSE i \in 1 .. Len(set) :
            /\ NFA[set[i]].kind = "Match"
            /\ \A k \in 1 .. (i - 1) : NFA[set[k]].kind # "Match"
    ELSE Len(set) + 1
\* The states of a sequence that carry a transition on a byte.
RangesOf(set) == SelectSeq(set, LAMBDA id : NFA[id].kind = "Range")
\* A state with a transition follows the first Match state of the closure.
RangeAfterMatch(set) ==
    \E i \in (FirstMatch(set) + 1) .. Len(set) : NFA[set[i]].kind = "Range"

\* C24: a DFA state made from a closure holds, under leftmost-first
\* semantics, the NFA states of the closure that come before its first Match
\* state and none that follows it; under longest-match semantics it holds
\* all of them.  (Union states are never kept: they carry no transition.)
C24_CutAtFirstMatch ==
    \A a \in Added :
        /\ a.state.is_match = (FirstMatch(a.set) <= Len(a.set))
        /\ a.state.nfa_states =
              IF longest_match THEN RangesOf(a.set)
              ELSE RangesOf(SubSeq(a.set, 1, FirstMatch(a.set) - 1))
\* Under leftmost-first semantics a state was made from a closure with a
\* state after its first Match, and under longest match likewise.
C24_Witness ==
    /\ ~longest_match
    /\ \E a \in Added :
          /\ RangeAfterMatch(a.set)
          /\ Len(a.state.nfa_states) < Len(RangesOf(a.set))
C24_WitnessLongest ==
    /\ longest_match
    /\ \E a \in Added : RangeAfterMatch(a.set) /\ a.state.nfa_states = RangesOf(a.set)

\* The determinizer is at work or has returned: its map is there to see.
Determinizing == det.pc \in {"new", "building", "built", "failed"}
\* No two IDs were given to one state.
NoDuplicateStates ==
    \A i, j \in 1 .. Len(det.builder_states) :
        det.builder_states[i] = det.builder_states[j] => i = j

\* C25: during determinization no two DFA state IDs are given to the same
\* pair of NFA state sequence and is_match; a state is added only when the
\* map has no entry for it; and the map's entry for the empty state that
\* does not match is the dead state.
C25_Deduplicated ==
    Determinizing =>
        /\ NoDuplicateStates
        /\ \A a \in Added : ~a.cached
        /\ det.cache[DeterminizerState_dead] = 0
\* The same of the states that cached_state adds: all but the start state.
C25_DeduplicatedAfterStart ==
    Determinizing =>
        /\ \A i, j \in 3 .. Len(det.builder_states) :
              det.builder_states[i] = det.builder_states[j] => i = j
        /\ \A a \in Added : a.id # 1 => ~a.cached
\* A build has finished in which two transitions found the same state in
\* the map, and no state has two IDs.
C25_Witness ==
    /\ det.pc = "built"
    /\ Len(det.builder_states) >= 3
    /\ NoDuplicateStates
    /\ det.cache[DeterminizerState_dead] = 0
    /\ \E id \in DFA_ids(det.dfa) \ {0} :
          det.dfa.rows[id + 1].next[0] = det.dfa.rows[id + 1].next[1]
             /\ det.dfa.rows[id + 1].next[0] # 0
\* The start state was added as state 1 for the empty state that does not
\* match, which is the dead state's, and the map now leads to state 1.
C25_StartDuplicatesDead ==
    /\ Determinizing
    /\ Len(det.builder_states) >= 2
    /\ det.builder_states[2] = DeterminizerState_dead
    /\ det.cache[DeterminizerState_dead] = 1

(***************************************************************************)
(* Properties of the one-pass DFA                                          *)
(***************************************************************************)
\* An InternalBuilder is there, at work or at its end.
HasTable == one.pc \in {"new", "building", "built", "failed", "panicked"}
               /\ "table" \in DOMAIN one
\* The IDs of the DFA's states: the offsets of their rows.
OnePassStates == {sid \in 0 .. (Len(one.table) - 1) : sid % OnePass_stride(one) = 0}
Row(sid) == sid .. (sid + OnePass_stride(one) - 1)
\* The bytes that compile_transition asks transitions for.
RepresentativeBytes ==
    Elements(ByteClasses_representatives(one.classes, 0, OneByteCount - 1))
MatchCellInRow(sid) ==
    /\ PatternInfoCell(one, sid) \in Row(sid)
    /\ InTable(one, PatternInfoCell(one, sid))
    /\ \A byte \in RepresentativeBytes :
          TransitionCell(sid, byte) # PatternInfoCell(one, sid)
    /\ \A other \in OnePassStates \ {sid} : PatternInfoCell(one, sid) \notin Row(other)

\* C26: every state of the one-pass DFA has alphabet_len + 1 cells inside
\* its row of stride cells; the cell of its match information is inside the
\* table, is none of its transition cells and is no cell of another state.
C26_MatchCellInRow ==
    HasTable =>
        \A sid \in OnePassStates :
            /\ OnePass_alphabet_len(one) + 1 <= OnePass_stride(one)
            /\ MatchCellInRow(sid)
\* The same of the DFAs built without byte classes.
C26_MatchCellInRowOfSingletons ==
    HasTable /\ ~one.config.byte_classes =>
        \A sid \in OnePassStates :
            /\ OnePass_alphabet_len(one) + 1 <= OnePass_stride(one)
            /\ MatchCellInRow(sid)
\* A DFA was built with byte classes, and a state's match information is
\* in the cell after its transitions, inside its row.
C26_Witness ==
    /\ one.pc = "built"
    /\ one.config.byte_classes
    /\ \E sid \in OnePassStates :
          /\ MatchCellInRow(sid)
          /\ PatternInfo_patterns(OnePass_pattern_info(one, sid)) = Patterns_insert(Patterns_empty, 0)
\* The alphabet fills the row: the cell of a state's match information is
\* the first cell of the next state, or lies beyond the table.
C26_MatchCellOfNextState ==
    /\ HasTable
    /\ OnePass_alphabet_len(one) = OnePass_stride(one)
    /\ \E sid \in OnePassStates \ {DEAD} :
          \/ ~InTable(one, PatternInfoCell(one, sid))
          \/ PatternInfoCell(one, sid) \in OnePassStates

\* Two transitions were made for one byte of the state being compiled that
\* differ in the next state or in the Info.
Conflict ==
    \E p, q \in one.produced : p.sid = q.sid /\ p.byte = q.byte /\ p.t # q.t
NotOnePass == one.pc = "failed" /\ one.err.kind = "not one-pass"
Stored(p) ==
    /\ InTable(one, TransitionCell(p.sid, p.byte))
    /\ OnePass_transition(one, p.sid, p.byte) = p.t

\* C27: if two transitions that differ in the next state or in the Info are
\* made for the same byte of the state being compiled, the build fails with
\* a NotOnePass error; otherwise the one transition made for a byte of the
\* state is the transition stored for that byte.
C27_ConflictOrStored ==
    HasTable =>
        IF Conflict THEN NotOnePass ELSE \A p \in one.produced : Stored(p)
\* The same of the DFAs built without byte classes.
C27_StoredOfSingletons ==
    HasTable /\ ~one.config.byte_classes =>
        IF Conflict THEN NotOnePass ELSE \A p \in one.produced : Stored(p)
\* A state with transitions on two bytes was compiled, and each transition
\* made is the one stored.
C27_Witness ==
    /\ one.pc = "building"
    /\ \E p, q \in one.produced : p.byte # q.byte /\ p.t # q.t
    /\ \A p \in one.produced : Stored(p)
\* The one transition made for a byte found the cell of the byte taken by a
\* transition of another state, and the build panicked.
C27_PanickedWithoutConflict ==
    /\ HasTable
    /\ one.pc = "panicked"
    /\ one.err.kind = "not yet implemented"
    /\ ~Conflict
    /\ \E p \in one.produced :
          /\ InTable(one, TransitionCell(p.sid, p.byte))
          /\ OnePass_transition(one, p.sid, p.byte) # p.t

\* The patterns that pattern_info reports for a state.
PatternsOf(sid) == PatternInfo_patterns(OnePass_pattern_info(one, sid))
\* C28: the build does not succeed once a second Match state is reached among
\* the NFA states expanded for one DFA state, and in a DFA that was built
\* every state records at most one matching pattern.
C28_OneMatchPerState ==
    HasTable =>
        /\ one.reached >= 2 => one.pc \in {"failed", "panicked"}
        /\ one.pc = "built" =>
              \A sid \in OnePassStates :
                  InTable(one, PatternInfoCell(one, sid)) =>
                      Cardinality(PatternsOf(sid)) <= 1
\* The same of the DFAs built without byte classes.
C28_OneMatchPerStateOfSingletons ==
    HasTable /\ ~one.config.byte_classes =>
        /\ one.reached >= 2 => one.pc \in {"failed", "panicked"}
        /\ one.pc = "built" =>
              \A sid \in OnePassStates : Cardinality(PatternsOf(sid)) <= 1
\* A DFA was built in which a state records its one matching pattern.
C28_Witness ==
    /\ one.pc = "built"
    /\ \E sid \in OnePassStates :
          /\ one.nfa_to_dfa_id[Len(one.nfa.states)] = sid
          /\ one.nfa.states[Len(one.nfa.states)].kind = "Match"
          /\ MatchCellInRow(sid)
          /\ Cardinality(PatternsOf(sid)) = 1
\* A DFA was built in which the cell read for a state's patterns is a
\* transition of the next state, and shows two patterns.
C28_TwoPatternsRecorded ==
    /\ one.pc = "built"
    /\ \E sid \in OnePassStates :
          /\ InTable(one, PatternInfoCell(one, sid))
          /\ Cardinality(PatternsOf(sid)) >= 2

Returned == HasTable /\ one.pc \in {"built", "failed", "panicked"}
\* C29: the build of a pattern with more than 24 explicit capture slots,
\* the slots of the overall match not counted, returns an error; a pattern
\* with at most 24 explicit capture slots is not rejected for its slots.
C29_SlotLimit ==
    Returned =>
        IF ExplicitSlots(one.nfa) > MAX_SLOTS THEN one.pc = "failed"
        ELSE one.err.kind # "assertion failed: slot < MAX_SLOTS"
\* The build of a pattern with 26 explicit capture slots panicked.
C29_PanickedOnSlots ==
    /\ Returned
    /\ ExplicitSlots(one.nfa) > MAX_SLOTS
    /\ one.pc = "panicked"

\* C30: the cell that Transition::new makes of a StateID and an Info has the
\* StateID in the bits 32 to 63, the capture slot i in the bit 8 + i and the
\* look-around set in the bits 0 to 7: state_id reads the StateID back, the
\* low 32 bits are the Info, and no slot bit is a look bit or a bit of the
\* StateID.
C30_CellLayout ==
    one.pc = "cell" =>
        /\ Transition_state_id(one.cell) = BitsOf(one.sid)
        /\ AsU32(one.cell) = one.info
        /\ one.cell \cap (32 .. 63) = {32 + i : i \in BitsOf(one.sid)}
        /\ one.cell \cap (8 .. 31) = {8 + i : i \in one.slots}
        /\ one.cell \cap (0 .. 7) = one.looks
\* A cell was made of the greatest StateID, the slots 0 and 23 and the
\* look-around assertions 0 and 7.
C30_Witness ==
    /\ one.pc = "cell"
    /\ one.sid = StateID_MAX
    /\ {0, MAX_SLOTS - 1} \subseteq one.slots
    /\ one.looks = CellLooks
\* set_state_id ors the StateID into the cell: state_id reads it back if
\* the cell's StateID was zero.
C30_SetStateIDOverDead ==
    one.pc = "set" /\ one.was = DEAD =>
        /\ Transition_state_id(one.cell) = BitsOf(one.sid)
        /\ AsU32(one.cell) = one.info

\* The cell used for the transition p lies in the row of p's state, at the
\* offset of the class of p's byte.
CellOfClass(p) ==
    /\ TransitionCell(p.sid, p.byte) \in Row(p.sid)
    /\ TransitionCell(p.sid, p.byte) = p.sid + one.classes[p.byte]
    /\ one.classes[p.byte] < OnePass_stride(one)

\* C39: every transition cell read or written for a state of the one-pass
\* DFA lies inside the row of that state: the index added to the state's
\* offset is the equivalence class of the byte and is less than the stride.
C39_TransitionCellInRow ==
    HasTable => \A p \in one.produced : CellOfClass(p)
\* The same of the DFAs built without byte classes.
C39_TransitionCellInRowOfSingletons ==
    HasTable /\ ~one.config.byte_classes => \A p \in one.produced : CellOfClass(p)
\* A state was compiled with byte classes, and the cells of its transitions,
\* for bytes that are the numbers of their classes, are in its row.
C39_Witness ==
    /\ HasTable
    /\ one.config.byte_classes
    /\ Cardinality(one.produced) >= 2
    /\ \A p \in one.produced : CellOfClass(p)
\* A transition was written to a cell of another state's row.
C39_CellInOtherRow ==
    /\ HasTable
    /\ \E p \in one.produced :
          /\ InTable(one, TransitionCell(p.sid, p.byte))
          /\ TransitionCell(p.sid, p.byte) \notin Row(p.sid)

(***************************************************************************)
(* Properties of Hopcroft's refinement                                     *)
(***************************************************************************)
\* The sets of `partitions` are non-empty, pairwise disjoint and cover the
\* states of the DFA.
IsPartition(partitions) ==
    /\ \A p \in 1 .. Len(partitions) : partitions[p] # <<>>
    /\ \A p, q \in 1 .. Len(partitions) :
          p # q => Elements(partitions[p]) \cap Elements(partitions[q]) = {}
    /\ UNION {Elements(partitions[p]) : p \in 1 .. Len(partitions)} = DFA_ids(det.dfa)
\* No set of `partitions` has a match state and a state that is none.
MatchApart(partitions) ==
    \A p \in 1 .. Len(partitions) : \A a, b \in Elements(partitions[p]) :
        DFA_is_match_state(det.dfa, a) = DFA_is_match_state(det.dfa, b)
Smaller(split) == IF Len(split.x) <= Len(split.y) THEN split.x ELSE split.y

\* C40: throughout the refinement the partitions are non-empty, pairwise
\* disjoint and cover every state of the DFA, none holds a match state and a
\* non-match state, and after a partition is split the smaller of the two
\* halves is on the waiting list.
C40_PartitionsRefined ==
    det.pc = "minimizing" =>
        /\ \A partitions \in det.history \cup {det.partitions} :
              IsPartition(partitions) /\ MatchApart(partitions)
        /\ \A split \in det.splits : SeqContains(split.waiting, Smaller(split))
\* A partition that was not waiting was split into halves of different
\* sizes, and the smaller one is on the waiting list.
C40_Witness ==
    /\ det.pc = "minimizing"
    /\ \E split \in det.splits :
          /\ ~split.was_waiting
          /\ Len(split.x) # Len(split.y)
          /\ SeqContains(split.waiting, Smaller(split))

\* A partition that was on the waiting list was split: both halves are on
\* the waiting list.
C40_WitnessWaiting ==
    /\ det.pc = "minimizing"
    /\ \E split \in det.splits :
          /\ split.was_waiting
          /\ SeqContains(split.waiting, split.x)
          /\ SeqContains(split.waiting, split.y)

(***************************************************************************)
(* Properties of the lazy DFA's clears, IDs and state map.                 *)
(***************************************************************************)
\* The last operation was a transition that missed the cache and cleared it.
StepCleared == StepMissed /\ cache.n_clears >= 1 /\ cache.at_clear # None

C33_UnsavedClear == StepCleared /\ ~cache.at_clear.saved

\* The IDs in the transition table and in the start table other than the
\* unknown ID.
StoredIDs ==
    {cache.trans[i] : i \in 1 .. Len(cache.trans)}
        \cup {cache.starts[i] : i \in 1 .. Len(cache.starts)}
\* The rows of the states that are not sentinels.
StateRows == 3 .. (Len(cache.states) - 1)
Cell(row, unit) == cache.trans[row * stride + classes_get(unit) + 1]
\* The cell of `row` on `unit` is unknown or holds the ID of the state one
\* powerset-construction step leads to, or the quit ID on a quit byte.
CellDenotes(row, unit) ==
    LET to == Cell(row, unit)
        successor == determinize_next(cache.states[row + 1], unit)
    IN \/ is_unknown(to)
       \/ unit \in inert.quitset /\ to = quit_id
       \/ /\ unit \notin inert.quitset
          /\ StateOf(to) = successor
          /\ successor \in DOMAIN cache.states_to_id
          /\ cache.states_to_id[successor] = to

\* The ID cache_next_state passed to set_transition as `from`: the saved
\* state's new ID if the step saved its origin, else `current`.
FromID == IF StepCleared /\ cache.at_clear.saved THEN OriginID ELSE last.current

\* C34: every state ID stored in the transition table and in the start table
\* is in range and stride-aligned for the cache as it is, every transition
\* stored for a state leads to the state its ID denoted when it was stored,
\* the ID a step passes to set_transition denotes the step's origin, and no
\* step fails an assertion of set_transition.
C34_StoredIDsValid ==
    inert.built =>
        /\ last.op \in StepOps => last.res # "panic"
        /\ \A id \in StoredIDs : is_valid(cache, id)
        /\ Len(cache.trans) = Len(cache.states) * stride
        /\ \A row \in StateRows : \A unit \in representatives :
              CellDenotes(row, unit)
        /\ (StepMissed /\ last.res = "ok") =>
              is_valid(cache, FromID) /\ StateOf(FromID) = last.from

\* A step that cleared the cache, re-added its origin and recorded the
\* transition to a new state in the origin's new row.
C34_Witness ==
    /\ StepCleared /\ last.res = "ok" /\ cache.at_clear.saved
    /\ StateOf(FromID) = last.from
    /\ Cell(as_usize_untagged(FromID) \div stride, last.unit) = last.id
    /\ ~is_unknown(last.id) /\ as_usize_untagged(last.id) >= 3 * stride
    /\ \A row \in StateRows : \A unit \in representatives : CellDenotes(row, unit)

\* A transition written through an ID from before a clear, into the row of
\* another state.
C34_StaleRowWritten ==
    /\ StepCleared /\ last.res = "ok" /\ ~cache.at_clear.saved
    /\ is_valid(cache, last.current) /\ StateOf(last.current) # last.from
    /\ Cell(as_usize_untagged(last.current) \div stride, last.unit) = last.id

\* The cached states that are not sentinels.
CachedStates == {cache.states[row + 1] : row \in StateRows}
\* states_to_id has one entry per cached non-sentinel state, which holds the
\* ID of that state's row, and the entry of the dead state.
OneIDPerState ==
    /\ \A i, j \in StateRows : cache.states[i + 1] = cache.states[j + 1] => i = j
    /\ State_dead \notin CachedStates
    /\ DOMAIN cache.states_to_id = CachedStates \cup {State_dead}
    /\ cache.states_to_id[State_dead] = dead_id
    /\ \A row \in StateRows :
          as_usize_untagged(cache.states_to_id[cache.states[row + 1]]) = row * stride
\* A step that misses the transition table but whose successor is cached
\* returns the cached ID and neither adds a state nor clears the cache.
CachedIsReturned ==
    \A unit \in representatives :
        LET successor == determinize_next(last'.from, unit)
        IN (/\ last'.op \in StepOps /\ last'.miss /\ last'.unit = unit
            /\ successor \in DOMAIN cache.states_to_id
            /\ Len(cache.states) > as_usize_untagged(last'.current) \div stride
            /\ cache.states[(as_usize_untagged(last'.current) \div stride) + 1]
                  = last'.from)
           => /\ last'.res = "ok"
              /\ last'.id = cache.states_to_id[successor]
              /\ cache'.states = cache.states
              /\ cache'.states_to_id = cache.states_to_id
              /\ cache'.n_clears = 0

\* C35: the cache never holds two IDs for the same state contents:
\* states_to_id has exactly one entry per cached non-sentinel state plus the
\* dead state, also after a clear that re-added a saved state, and adding a
\* state whose contents are cached returns the existing ID without adding or
\* clearing.
C35_OneIDPerState ==
    /\ [](inert.built => OneIDPerState)
    /\ [][CachedIsReturned]_vars

\* A miss whose successor, the origin itself, was cached already.
C35_Witness ==
    /\ OneIDPerState
    /\ StepMissed /\ last.res = "ok" /\ cache.n_clears = 0
    /\ last.from \in DOMAIN cache.states_to_id /\ last.id = OriginID

\* After a clear that re-added the saved origin and added the successor.
C35_WitnessSaved ==
    /\ OneIDPerState
    /\ StepCleared /\ last.res = "ok" /\ cache.at_clear.saved
    /\ Len(cache.states) = 5

\* C36: next_state, next_eoi_state and the start-state computation, when
\* they succeed, return an ID other than the unknown sentinel; the state a
\* scan holds is never unknown, and a search is aborted only by a panic of
\* such a computation, never by the branch for an unknown state.
C36_NeverUnknown ==
    /\ (last.op \in StepOps \cup {"start_state_forward"} /\ last.res = "ok")
          => ~is_unknown(last.id)
    /\ srch.pc = "scan" => ~is_unknown(srch.sid)
    /\ srch.pc = "panic" => last.res = "panic"

\* A transition that was unknown in the table, recomputed, and the scan
\* going on from the state it led to.
C36_Witness ==
    /\ StepMissed /\ last.res = "ok" /\ last.op = "next_state"
    /\ srch.pc = "scan" /\ srch.sid = last.id /\ ~is_unknown(srch.sid)
    /\ srch.at = last.at + 1

(***************************************************************************)
(* Properties of repeated overlapping searches.                            *)
(***************************************************************************)
\* Calls with one OverlappingState as an iterator makes them: every call
\* before the last reported a match.
OverlappingSequence ==
    /\ ov.pc = "called" /\ ov.result.kind = "Ok"
    /\ ov.nones = 0 \/ (ov.nones = 1 /\ ov.out = None)

\* C37: repeated overlapping forward searches with one OverlappingState over
\* a fixed input report every (pattern, end offset) pair at most once, in
\* non-decreasing order of the offsets and none beyond the end of the span,
\* and take the transition on the end of input or on the look-ahead byte at
\* most once.
C37_ReportedOnce ==
    OverlappingSequence =>
        /\ \A i, j \in 1 .. Len(ov.found) : ov.found[i] = ov.found[j] => i = j
        /\ \A i, j \in 1 .. Len(ov.found) :
              i < j => ov.found[i].offset <= ov.found[j].offset
        /\ \A i \in 1 .. Len(ov.found) : ov.found[i].offset <= ov.end
        /\ ov.eois <= 1

\* Samwise|Sam in the span Samw: the match at 3, then no match, reported by
\* the one call that takes the transition at the end of the span.
C37_Witness ==
    /\ OverlappingSequence /\ prog = Program_Samwise_Sam
    /\ ov.hay = SubSeq(Samwise, 1, 4) /\ ov.end = 4
    /\ ov.found = <<HalfMatch(0, 3)>> /\ ov.out = None
    /\ ov.calls = 2 /\ ov.eois = 1

\* a[ab][ab] in the span aaa of aaaa: a call that took the look-ahead
\* transition again, reported the match of the calls before again and left
\* the OverlappingState in the same DFA state, beyond the end of the span.
C37_ReportedAgain ==
    /\ OverlappingSequence /\ prog = Program_a_ab_ab_All
    /\ ov.hay = AAAA /\ ov.end = 3
    /\ ov.calls = 3 /\ ov.eois = 3
    /\ ov.found = <<HalfMatch(0, 3), HalfMatch(0, 3), HalfMatch(0, 3)>>
    /\ ov.state.id = ov.given.id
    /\ ov.state.next_match_index = ov.given.next_match_index
    /\ ov.state.at = ov.given.at + 1 /\ ov.state.at > ov.end

\* The transition on the end of input taken a second time, after the match
\* it reported.
C37_EoiTakenTwice ==
    /\ OverlappingSequence /\ prog = Program_Samwise_Sam
    /\ ov.hay = Samwise /\ ov.end = Len(Samwise)
    /\ ov.found = <<HalfMatch(0, 3), HalfMatch(0, 7)>> /\ ov.out = None
    /\ ov.eois = 2

(***************************************************************************)
(* Properties of the non-overlapping iterators.                            *)
(***************************************************************************)
\* Where a yielded item begins and ends; a half match is known by its
\* offset alone.
EndOf(m) == IF it.kind = "TryHalfMatches" THEN m.offset ELSE m.end
\* Every yielded match starts at or after the end of the one yielded before
\* it, a half match ends after it, and no match is yielded twice.
Progressing ==
    /\ \A i, j \in 1 .. Len(it.yielded) : it.yielded[i] = it.yielded[j] => i = j
    /\ \A i \in 1 .. Len(it.yielded) - 1 :
          IF it.kind = "TryHalfMatches"
          THEN it.yielded[i + 1].offset > it.yielded[i].offset
          ELSE it.yielded[i + 1].start >= it.yielded[i].end
\* next has returned None.
IterEnded == it.calls > 0 /\ it.out = None

C38_Progressing == it.kind \in NonOverlapping => Progressing

(***************************************************************************)
(* The sparse DFA of dfa/sparse.rs: its bytes, written and read.  A state  *)
(* ID is the offset of the state's encoding in the sparse bytes.  The      *)
(* helpers of util/bytes.rs, Special, ByteClasses and the dense DFA are    *)
(* the spec's.                                                             *)
(***************************************************************************)
Endians == {"little", "big"}
\* What reading a u32 above i32::MAX gives in the model: a value above
\* every limit a read value is held against.
TooLarge == StateID_MAX + 1
Sub(bytes, from, n) == SubSeq(bytes, from + 1, from + n)
Zeros(n) == [i \in 1 .. n |-> 0]
u16_to_bytes(E, n) ==
    IF E = "little" THEN <<n % 256, n \div 256>> ELSE <<n \div 256, n % 256>>
u32_to_bytes(E, n) ==
    LET le == <<n % 256, (n \div 256) % 256, (n \div 65536) % 256, n \div 16777216>>
    IN  IF E = "little" THEN le ELSE <<le[4], le[3], le[2], le[1]>>
\* bytes::read_u16 and bytes::read_u32 at an offset; `ne` is the native
\* endianness of the target that runs the code.
read_u16(ne, bytes, at) ==
    IF ne = "little" THEN bytes[at + 1] + 256 * bytes[at + 2]
    ELSE 256 * bytes[at + 1] + bytes[at + 2]
read_u32(ne, bytes, at) ==
    LET b == IF ne = "little" THEN Sub(bytes, at, 4)
             ELSE <<bytes[at + 4], bytes[at + 3], bytes[at + 2], bytes[at + 1]>>
    IN  IF b[4] >= 128 THEN TooLarge
        ELSE b[1] + 256 * b[2] + 65536 * b[3] + 16777216 * b[4]
RECURSIVE Flatten(_)
Flatten(seqs) == IF seqs = <<>> THEN <<>> ELSE Head(seqs) \o Flatten(Tail(seqs))

DeOk(v) == [ok |-> TRUE, v |-> v]
DeErr(msg) == [ok |-> FALSE, msg |-> msg]

\* const LABEL, const VERSION
LABEL == <<114, 117, 115, 116, 45, 114, 101, 103, 101, 120, 45, 97, 117, 116, 111, 109, 97, 116, 97, 45, 100, 102, 97, 45, 115, 112, 97, 114, 115, 101>>
VERSION == 2
\* core::mem::size_of::<StateID>() and size_of::<u32>()
StateID_SIZE == 4
U32_SIZE == 4
\* The most transitions a state has: one for each byte and one for EOI.
MaxTransitions == 257
\* The most bytes of an accelerator.
MaxAccel == 3
\* The bit of the transition length that marks a match state: 1 << 15.
MatchBit == 32768

\* DFA::from_dense.  The dense DFA is a sequence of states in the order of
\* its IDs, the dead state first; a state's sparse_transitions are its
\* ranges of units with their next states, those to the dead state left
\* out, and the one on EOI last.
StateShell(ne, dfa, i) ==
    LET state == dfa.states[i]
        ranges == Flatten([k \in 1 .. Len(state.ranges) |->
                              <<state.ranges[k].b1, state.ranges[k].b2>>])
        transition_len == Len(state.ranges) + 1
        ntrans == IF state.is_match THEN transition_len + MatchBit ELSE transition_len
    IN  u16_to_bytes(ne, ntrans) \o ranges \o <<0, 0>>
          \o Zeros(transition_len * StateID_SIZE)
          \o (IF state.is_match
              THEN u32_to_bytes(ne, Len(state.pattern_ids))
                     \o Flatten([k \in 1 .. Len(state.pattern_ids) |->
                                    u32_to_bytes(ne, state.pattern_ids[k])])
              ELSE <<>>)
          \o <<Len(state.accel)>> \o state.accel
RECURSIVE Remap(_, _, _)
Remap(ne, dfa, i) == IF i = 1 THEN 0 ELSE Remap(ne, dfa, i - 1) + Len(StateShell(ne, dfa, i - 1))
\* StateMut::set_next_at
set_next_at(ne, bytes, id, ntrans, i, next) ==
    LET at == id + 2 + ntrans * 2 + i * StateID_SIZE
        idbytes == u32_to_bytes(ne, next)
    IN  [k \in 1 .. Len(bytes) |->
            IF k > at /\ k <= at + StateID_SIZE THEN idbytes[k - at] ELSE bytes[k]]
RECURSIVE SecondPass(_, _, _, _, _)
SecondPass(ne, dfa, bytes, i, k) ==
    IF i > Len(dfa.states) THEN bytes
    ELSE LET state == dfa.states[i]
             sparse == [j \in 1 .. Len(state.ranges) |-> state.ranges[j].next]
                         \o (IF state.eoi = 1 THEN <<>> ELSE <<state.eoi>>)
         IN  IF k > Len(sparse) THEN SecondPass(ne, dfa, bytes, i + 1, 1)
             ELSE SecondPass(ne, dfa,
                     set_next_at(ne, bytes, Remap(ne, dfa, i), Len(state.ranges) + 1,
                                 k - 1, Remap(ne, dfa, sparse[k])),
                     i, k + 1)
Special_remap(ne, dfa, special) ==
    [f \in DOMAIN special |-> Remap(ne, dfa, special[f])]
from_dense(ne, dfa) ==
    LET shells == Flatten([i \in 1 .. Len(dfa.states) |-> StateShell(ne, dfa, i)])
    IN  [trans |-> [sparse |-> SecondPass(ne, dfa, shells, 1, 1),
                    classes |-> dfa.classes,
                    len |-> Len(dfa.states),
                    pattern_len |-> dfa.pattern_len],
         starts |-> [table |-> Flatten([k \in 1 .. Len(dfa.starts) |->
                                           u32_to_bytes(ne, Remap(ne, dfa, dfa.starts[k]))]),
                     stride |-> StartCount,
                     pattern_len |-> dfa.starts_pattern_len],
         special |-> Special_remap(ne, dfa, dfa.special)]

\* Transitions::state: the state at `id`, read without a check.  A read
\* past the end of the sparse bytes panics.
Transitions_state(ne, sparse, id) ==
    IF id + 2 > Len(sparse) THEN [panic |-> TRUE]
    ELSE
    LET raw == read_u16(ne, sparse, id)
        matched == raw >= MatchBit
        ntrans == raw % MatchBit
        ranges_at == id + 2
        next_at == ranges_at + ntrans * 2
        pats_at == next_at + ntrans * StateID_SIZE
    IN  IF pats_at + (IF matched THEN U32_SIZE ELSE 0) > Len(sparse)
        THEN [panic |-> TRUE]
        ELSE
        LET npats == IF matched THEN read_u32(ne, sparse, pats_at) ELSE 0
            accel_at == IF matched THEN pats_at + U32_SIZE + npats * 4 ELSE pats_at
        IN  IF npats = TooLarge \/ accel_at + 1 > Len(sparse)
               \/ accel_at + 1 + sparse[accel_at + 1] > Len(sparse)
            THEN [panic |-> TRUE]
            ELSE [panic |-> FALSE, id |-> id, is_match |-> matched, ntrans |-> ntrans,
                  input_ranges |-> Sub(sparse, ranges_at, ntrans * 2),
                  next |-> Sub(sparse, next_at, ntrans * StateID_SIZE),
                  pattern_ids |-> IF matched THEN Sub(sparse, pats_at + U32_SIZE, npats * 4)
                                  ELSE <<>>,
                  accel |-> Sub(sparse, accel_at + 1, sparse[accel_at + 1])]

\* State::range, next_at, next, next_eoi, pattern_id, bytes_len.
State_range(state, i) == <<state.input_ranges[i * 2 + 1], state.input_ranges[i * 2 + 2]>>
State_next_at(ne, state, i) == read_u32(ne, state.next, i * StateID_SIZE)
State_next(ne, state, input) ==
    LET hits == {i \in 0 .. (state.ntrans - 2) :
                    State_range(state, i)[1] <= input /\ input <= State_range(state, i)[2]}
    IN  IF hits = {} THEN DEAD
        ELSE State_next_at(ne, state, CHOOSE i \in hits : \A j \in hits : i <= j)
State_next_eoi(ne, state) == State_next_at(ne, state, state.ntrans - 1)
State_pattern_id(ne, state, match_index) == read_u32(ne, state.pattern_ids, match_index * 4)
State_bytes_len(state) ==
    2 + (state.ntrans * 2) + (state.ntrans * StateID_SIZE) + (1 + Len(state.accel))
      + (IF state.is_match THEN U32_SIZE + Len(state.pattern_ids) ELSE 0)

\* bytes::check_slice_len and bytes::read_state_id, read_pattern_id.
check_slice_len(len, at_least) == len >= at_least
read_state_id_ok(ne, bytes, at) == read_u32(ne, bytes, at) <= StateID_MAX
read_pattern_id_ok(ne, bytes, at) == read_u32(ne, bytes, at) <= StateID_MAX

\* Transitions::try_state: the state at `id`, or an error if its encoding is
\* invalid.
try_state_accel(ne, sparse, id, matched, ntrans, input_ranges, next, pattern_ids, at) ==
    IF at >= Len(sparse) THEN DeErr("no accelerator length")
    ELSE LET accel_len == sparse[at + 1]
         IN  IF accel_len > MaxAccel THEN DeErr("sparse invalid accelerator length")
             ELSE IF ~check_slice_len(Len(sparse) - (at + 1), accel_len)
             THEN DeErr("sparse corrupt accelerator length")
             ELSE DeOk([panic |-> FALSE, id |-> id, is_match |-> matched,
                        ntrans |-> ntrans, input_ranges |-> input_ranges,
                        next |-> next, pattern_ids |-> pattern_ids,
                        accel |-> Sub(sparse, at + 1, accel_len)])
try_state_patterns(ne, sparse, id, matched, ntrans, input_ranges, next, at) ==
    IF ~matched
    THEN try_state_accel(ne, sparse, id, matched, ntrans, input_ranges, next, <<>>, at)
    ELSE IF Len(sparse) - at < U32_SIZE THEN DeErr("pattern ID length")
    ELSE LET npats == read_u32(ne, sparse, at)
         IN  IF npats = TooLarge THEN DeErr("sparse pattern ID byte length")
             ELSE IF ~check_slice_len(Len(sparse) - (at + U32_SIZE), npats * 4)
             THEN DeErr("sparse pattern IDs")
             ELSE LET pattern_ids == Sub(sparse, at + U32_SIZE, npats * 4)
                  IN  IF \E k \in 0 .. (npats - 1) : ~read_pattern_id_ok(ne, pattern_ids, k * 4)
                      THEN DeErr("sparse pattern ID in try_state")
                      ELSE try_state_accel(ne, sparse, id, matched, ntrans, input_ranges,
                                           next, pattern_ids, at + U32_SIZE + npats * 4)
try_state_next(ne, sparse, id, matched, ntrans, input_ranges, at) ==
    LET next_len == ntrans * StateID_SIZE
    IN  IF ~check_slice_len(Len(sparse) - at, next_len) THEN DeErr("sparse trans state IDs")
        ELSE LET next == Sub(sparse, at, next_len)
             IN  IF \E k \in 0 .. (ntrans - 1) :
                       \/ ~read_state_id_ok(ne, next, k * StateID_SIZE)
                       \/ ~check_slice_len(Len(sparse), read_u32(ne, next, k * StateID_SIZE))
                 THEN DeErr("invalid sparse state ID")
                 ELSE try_state_patterns(ne, sparse, id, matched, ntrans, input_ranges,
                                         next, at + next_len)
try_state(ne, sparse, id) ==
    IF id > Len(sparse) THEN DeErr("invalid sparse state ID")
    ELSE IF Len(sparse) - id < 2 THEN DeErr("state transition length")
    ELSE LET raw == read_u16(ne, sparse, id)
             matched == raw >= MatchBit
             ntrans == raw % MatchBit
             input_ranges_len == ntrans * 2
         IN  IF ntrans > MaxTransitions \/ ntrans = 0 THEN DeErr("invalid transition length")
             ELSE IF ~check_slice_len(Len(sparse) - (id + 2), input_ranges_len)
             THEN DeErr("sparse byte pairs")
             ELSE LET input_ranges == Sub(sparse, id + 2, input_ranges_len)
                  IN  IF \E k \in 0 .. (ntrans - 1) :
                            input_ranges[k * 2 + 1] > input_ranges[k * 2 + 2]
                      THEN DeErr("invalid input range")
                      ELSE try_state_next(ne, sparse, id, matched, ntrans, input_ranges,
                                          id + 2 + input_ranges_len)

\* Transitions::validate.  `verified` is the set Seen of the build with the
\* feature "alloc"; after a transition's target is decoded, the ID that is
\* inserted is `id`, by then the offset that follows the state.
RECURSIVE validate_transitions(_, _, _, _, _, _)
validate_transitions(ne, sparse, state, id, i, verified) ==
    IF i >= state.ntrans THEN DeOk(verified)
    ELSE LET to == State_next_at(ne, state, i)
         IN  IF to \in verified
             THEN validate_transitions(ne, sparse, state, id, i + 1, verified)
             ELSE IF ~try_state(ne, sparse, to).ok THEN try_state(ne, sparse, to)
             ELSE validate_transitions(ne, sparse, state, id, i + 1, verified \cup {id})
RECURSIVE validate_states(_, _, _, _, _)
validate_states(ne, trans, id, len, verified) ==
    IF id >= Len(trans.sparse)
    THEN IF len # trans.len THEN DeErr("mismatching sparse state length") ELSE DeOk(len)
    ELSE LET state == try_state(ne, trans.sparse, id)
         IN  IF ~state.ok THEN state
             ELSE LET next_id == id + State_bytes_len(state.v)
                      checked == validate_transitions(ne, trans.sparse, state.v, next_id, 0,
                                                      verified \cup {id})
                  IN  IF ~checked.ok THEN checked
                      ELSE validate_states(ne, trans, next_id, len + 1, checked.v)
Transitions_validate(ne, trans) == validate_states(ne, trans, DEAD, 0, {})

\* StartTable::iter and StartTable::validate.
StartIDs(ne, starts) ==
    [k \in 1 .. (Len(starts.table) \div StateID_SIZE) |->
        read_u32(ne, starts.table, (k - 1) * StateID_SIZE)]
StartTable_validate(ne, starts, trans) ==
    IF \E k \in DOMAIN StartIDs(ne, starts) : ~try_state(ne, trans.sparse, StartIDs(ne, starts)[k]).ok
    THEN DeErr("invalid sparse state ID")
    ELSE DeOk(starts)

\* bytes::write_label, write_endianness_check, write_version; the label is
\* followed by a NUL and padded to a multiple of four bytes.
EndiannessCheck == 65279
write_label == LABEL \o Zeros(4 - (Len(LABEL) % 4))
write_endianness_check(E) == u32_to_bytes(E, EndiannessCheck)
write_version(E) == u32_to_bytes(E, VERSION)
\* ByteClasses::write_to and from_bytes: the class of each of the 256 bytes.
ClassMapLen == 256
ByteClasses_write_to(classes) == classes
ByteClasses_from_bytes(slice, at) ==
    IF ~check_slice_len(Len(slice) - at, ClassMapLen) THEN DeErr("byte class map")
    ELSE DeOk(Sub(slice, at, ClassMapLen))
\* Special::write_to and from_bytes: its fields, a u32 each.
SpecialFields ==
    <<"dead", "quit_id", "min_match", "max_match", "min_start", "max_start",
      "min_accel", "max_accel", "max">>
Special_write_to(E, special) ==
    Flatten([k \in 1 .. Len(SpecialFields) |-> u32_to_bytes(E, special[SpecialFields[k]])])
Special_from_bytes(ne, slice, at) ==
    IF ~check_slice_len(Len(slice) - at, Len(SpecialFields) * U32_SIZE)
    THEN DeErr("special states")
    ELSE DeOk([v |-> [f \in {SpecialFields[k] : k \in DOMAIN SpecialFields} |->
                        read_u32(ne, slice,
                                 at + U32_SIZE * ((CHOOSE k \in DOMAIN SpecialFields :
                                                      SpecialFields[k] = f) - 1))],
               nr |-> at + Len(SpecialFields) * U32_SIZE])
Special_is_dead_state(special, id) == id = DEAD
Special_is_match_state(special, id) ==
    id # DEAD /\ special.min_match <= id /\ id <= special.max_match
Special_is_special_state(special, id) == id <= special.max

\* Transitions::write_to: the lengths in the format E, the sparse bytes as
\* they are in memory.
Transitions_write_to(E, trans) ==
    u32_to_bytes(E, trans.len) \o u32_to_bytes(E, trans.pattern_len)
      \o ByteClasses_write_to(trans.classes)
      \o u32_to_bytes(E, Len(trans.sparse))
      \o trans.sparse
\* StartTable::write_to
StartTable_write_to(E, starts) ==
    u32_to_bytes(E, starts.stride) \o u32_to_bytes(E, starts.pattern_len) \o starts.table
\* DFA::write_to
DFA_write_to(E, dfa) ==
    write_label \o write_endianness_check(E) \o write_version(E) \o u32_to_bytes(E, 0)
      \o Transitions_write_to(E, dfa.trans)
      \o StartTable_write_to(E, dfa.starts)
      \o Special_write_to(E, dfa.special)

\* Transitions::from_bytes_unchecked, from the offset `at` of the slice; nr is
\* the offset after what was read.
Transitions_from_bytes_unchecked(ne, slice, at) ==
    IF Len(slice) - at < 2 * U32_SIZE THEN DeErr("state length")
    ELSE LET classes == ByteClasses_from_bytes(slice, at + 2 * U32_SIZE)
             len_at == at + 2 * U32_SIZE + ClassMapLen
         IN  IF ~classes.ok THEN classes
             ELSE IF Len(slice) - len_at < U32_SIZE THEN DeErr("sparse transitions length")
             ELSE LET len == read_u32(ne, slice, len_at)
                  IN  IF ~check_slice_len(Len(slice) - (len_at + U32_SIZE), len)
                      THEN DeErr("sparse states byte length")
                      ELSE DeOk([v |-> [sparse |-> Sub(slice, len_at + U32_SIZE, len),
                                        classes |-> classes.v,
                                        len |-> read_u32(ne, slice, at),
                                        pattern_len |-> read_u32(ne, slice, at + U32_SIZE)],
                                 nr |-> len_at + U32_SIZE + len])
\* StartTable::from_bytes_unchecked
StartTable_from_bytes_unchecked(ne, slice, at) ==
    IF Len(slice) - at < 2 * U32_SIZE THEN DeErr("sparse start table read_stride")
    ELSE LET read_stride == read_u32(ne, slice, at)
             pattern_len == read_u32(ne, slice, at + U32_SIZE)
         IN  IF read_stride # StartCount THEN DeErr("invalid sparse starting table read_stride")
             ELSE IF pattern_len > StateID_MAX + 1 THEN DeErr("sparse invalid number of patterns")
             ELSE IF pattern_len > TooLarge \div (StartCount * StateID_SIZE) - 1
                     \/ ~check_slice_len(Len(slice) - (at + 2 * U32_SIZE),
                                         (read_stride + read_stride * pattern_len) * StateID_SIZE)
             THEN DeErr("sparse start ID table")
             ELSE LET table_bytes_len == (read_stride + read_stride * pattern_len) * StateID_SIZE
                  IN  DeOk([v |-> [table |-> Sub(slice, at + 2 * U32_SIZE, table_bytes_len),
                                   stride |-> read_stride, pattern_len |-> pattern_len],
                            nr |-> at + 2 * U32_SIZE + table_bytes_len])
\* DFA::from_bytes_unchecked: bytes::read_label, read_endianness_check,
\* read_version, the unused u32, then the three parts.
HeaderLen == Len(write_label) + 3 * U32_SIZE
DFA_from_bytes_unchecked(ne, slice) ==
    IF Len(slice) < HeaderLen THEN DeErr("header")
    ELSE IF Sub(slice, 0, Len(write_label)) # write_label THEN DeErr("label mismatch")
    ELSE IF read_u32(ne, slice, Len(write_label)) # EndiannessCheck
    THEN DeErr("endianness mismatch")
    ELSE IF read_u32(ne, slice, Len(write_label) + U32_SIZE) # VERSION
    THEN DeErr("unsupported version")
    ELSE LET trans == Transitions_from_bytes_unchecked(ne, slice, HeaderLen)
         IN  IF ~trans.ok THEN trans
             ELSE LET starts == StartTable_from_bytes_unchecked(ne, slice, trans.v.nr)
                  IN  IF ~starts.ok THEN starts
                      ELSE LET special == Special_from_bytes(ne, slice, starts.v.nr)
                           IN  IF ~special.ok THEN special
                               ELSE IF special.v.v.max >= Len(trans.v.v.sparse)
                               THEN DeErr("max should not be greater than or equal to sparse bytes")
                               ELSE DeOk([trans |-> trans.v.v, starts |-> starts.v.v,
                                          special |-> special.v.v])
\* DFA::from_bytes
DFA_from_bytes(ne, slice) ==
    LET dfa == DFA_from_bytes_unchecked(ne, slice)
    IN  IF ~dfa.ok THEN dfa
        ELSE IF ~Transitions_validate(ne, dfa.v.trans).ok THEN Transitions_validate(ne, dfa.v.trans)
        ELSE IF ~StartTable_validate(ne, dfa.v.starts, dfa.v.trans).ok
        THEN StartTable_validate(ne, dfa.v.starts, dfa.v.trans)
        ELSE dfa

\* StartTable::start with no pattern ID, and the Automaton's methods.  A
\* method that decodes a state at an ID that is not one panics.
StartTable_start(ne, starts, index) == read_u32(ne, starts.table, index * StateID_SIZE)
Sparse_start_state_forward(ne, dfa) == StartTable_start(ne, dfa.starts, Start_as_usize("Text"))
Sparse_next_state(ne, dfa, current, input) ==
    LET state == Transitions_state(ne, dfa.trans.sparse, current)
    IN  IF state.panic THEN [panic |-> TRUE]
        ELSE [panic |-> FALSE, id |-> State_next(ne, state, dfa.trans.classes[input + 1])]
Sparse_next_eoi_state(ne, dfa, current) ==
    LET state == Transitions_state(ne, dfa.trans.sparse, current)
    IN  IF state.panic THEN [panic |-> TRUE]
        ELSE [panic |-> FALSE, id |-> State_next_eoi(ne, state)]
Sparse_match_pattern(ne, dfa, id, match_index) ==
    IF dfa.trans.pattern_len = 1 THEN [panic |-> FALSE, id |-> 0]
    ELSE LET state == Transitions_state(ne, dfa.trans.sparse, id)
         IN  IF state.panic \/ Len(state.pattern_ids) < (match_index + 1) * 4
             THEN [panic |-> TRUE]
             ELSE [panic |-> FALSE, id |-> State_pattern_id(ne, state, match_index)]

\* The forward search of an Automaton: the end of the leftmost match that
\* starts at 0, a match state being entered one byte after the match.
RECURSIVE Sparse_find_fwd_at(_, _, _, _, _, _)
Sparse_find_fwd_at(ne, dfa, hay, at, sid, found) ==
    LET next == IF at < Len(hay) THEN Sparse_next_state(ne, dfa, sid, hay[at + 1])
                ELSE Sparse_next_eoi_state(ne, dfa, sid)
    IN  IF next.panic THEN Panicked
        ELSE IF Special_is_special_state(dfa.special, next.id)
                /\ Special_is_match_state(dfa.special, next.id)
        THEN LET pattern == Sparse_match_pattern(ne, dfa, next.id, 0)
             IN  IF pattern.panic THEN Panicked
                 ELSE IF at >= Len(hay) THEN HalfMatch(pattern.id, at)
                 ELSE Sparse_find_fwd_at(ne, dfa, hay, at + 1, next.id,
                                         HalfMatch(pattern.id, at))
        ELSE IF Special_is_dead_state(dfa.special, next.id) \/ at >= Len(hay) THEN found
        ELSE Sparse_find_fwd_at(ne, dfa, hay, at + 1, next.id, found)
Sparse_find_fwd(ne, dfa, hay) ==
    Sparse_find_fwd_at(ne, dfa, hay, 0, Sparse_start_state_forward(ne, dfa), None)

\* StateIter::next: the IDs of the states, each the offset after the last.
RECURSIVE StateIDs(_, _, _)
StateIDs(ne, sparse, id) ==
    IF id >= Len(sparse) \/ Transitions_state(ne, sparse, id).panic THEN <<>>
    ELSE <<id>> \o StateIDs(ne, sparse,
                            id + State_bytes_len(Transitions_state(ne, sparse, id)))

\* What a sparse DFA is on a target of the endianness `ne`: its states with
\* their ranges, next states, pattern IDs and accelerators, its start states
\* and its special states.
StateOn(ne, sparse, id) ==
    LET state == Transitions_state(ne, sparse, id)
    IN  [id |-> id, is_match |-> state.is_match,
         input_ranges |-> state.input_ranges,
         next |-> [i \in 1 .. state.ntrans |-> State_next_at(ne, state, i - 1)],
         pattern_ids |-> [i \in 1 .. (Len(state.pattern_ids) \div 4) |->
                             State_pattern_id(ne, state, i - 1)],
         accel |-> state.accel]
DFAOn(ne, dfa) ==
    [states |-> [k \in DOMAIN StateIDs(ne, dfa.trans.sparse, DEAD) |->
                    StateOn(ne, dfa.trans.sparse, StateIDs(ne, dfa.trans.sparse, DEAD)[k])],
     sparse_len |-> Len(dfa.trans.sparse),
     classes |-> dfa.trans.classes,
     len |-> dfa.trans.len,
     pattern_len |-> dfa.trans.pattern_len,
     starts |-> StartIDs(ne, dfa.starts),
     special |-> dfa.special]

\* The dense DFAs the sparse ones are made from, their states numbered from
\* 1, the dead state: of `a+`, and of the two patterns `a` and `b`.
Byte_a == 97
Byte_b == 98
ClassesOf(classes) ==
    [b \in 1 .. ClassMapLen |-> IF (b - 1) \in DOMAIN classes THEN classes[b - 1] ELSE 0]
DenseState(matched, pattern_ids, ranges, eoi) ==
    [is_match |-> matched, pattern_ids |-> pattern_ids, ranges |-> ranges,
     eoi |-> eoi, accel |-> <<>>]
On(b1, b2, next) == [b1 |-> b1, b2 |-> b2, next |-> next]
DenseSpecial(min_match, max_match, min_start, max_start) ==
    [dead |-> 1, quit_id |-> 1, min_match |-> min_match, max_match |-> max_match,
     min_start |-> min_start, max_start |-> max_start,
     min_accel |-> 1, max_accel |-> 1, max |-> max_start]
Dense_a_plus ==
    [states |-> <<DenseState(FALSE, <<>>, <<>>, 1),
                  DenseState(TRUE, <<0>>, <<On(0, 0, 3), On(1, 1, 2)>>, 3),
                  DenseState(TRUE, <<0>>, <<>>, 1),
                  DenseState(FALSE, <<>>, <<On(1, 1, 5)>>, 1),
                  DenseState(FALSE, <<>>, <<On(0, 0, 3), On(1, 1, 2)>>, 3)>>,
     classes |-> ClassesOf((Byte_a :> 1)),
     pattern_len |-> 1,
     starts |-> <<4, 4, 4, 4>>,
     starts_pattern_len |-> 0,
     special |-> DenseSpecial(2, 3, 4, 4)]
Dense_a_or_b ==
    [states |-> <<DenseState(FALSE, <<>>, <<>>, 1),
                  DenseState(TRUE, <<0>>, <<>>, 1),
                  DenseState(TRUE, <<1>>, <<>>, 1),
                  DenseState(FALSE, <<>>, <<On(1, 1, 5), On(2, 2, 6)>>, 1),
                  DenseState(FALSE, <<>>, <<On(0, 2, 2)>>, 2),
                  DenseState(FALSE, <<>>, <<On(0, 2, 3)>>, 3)>>,
     classes |-> ClassesOf((Byte_a :> 1) @@ (Byte_b :> 2)),
     pattern_len |-> 2,
     starts |-> <<4, 4, 4, 4>>,
     starts_pattern_len |-> 0,
     special |-> DenseSpecial(2, 3, 4, 4)]
SparseDenseDFAs == {Dense_a_plus, Dense_a_or_b}
SparseHays == {<<>>, <<Byte_a>>, <<Byte_b>>, <<Byte_a, Byte_a>>, <<Byte_a, Byte_b>>, <<Byte_b, Byte_a>>}

\* The bytes a reader may be handed: what was written, with up to MaxPatches
\* of its state IDs replaced.  The IDs replaced are the next states of the
\* last PatchStates states and the first start state; the IDs put there are
\* those of the states, the offset PatchInner bytes into a state, the end of
\* the sparse bytes and the offset after it.
MaxPatches == 2
PatchStates == 2
PatchInner == 3
SparseAt == HeaderLen + 2 * U32_SIZE + ClassMapLen + U32_SIZE
SlotsOf(ne, sparse, id) ==
    LET state == Transitions_state(ne, sparse, id)
    IN  {SparseAt + id + 2 + state.ntrans * 2 + i * StateID_SIZE :
            i \in 0 .. (state.ntrans - 1)}
PatchFields(ne, dfa) ==
    LET ids == StateIDs(ne, dfa.trans.sparse, DEAD)
        StartsAt == SparseAt + Len(dfa.trans.sparse) + 2 * U32_SIZE
    IN  UNION {SlotsOf(ne, dfa.trans.sparse, ids[k]) :
                  k \in {j \in DOMAIN ids : j > Len(ids) - PatchStates}}
          \cup {StartsAt}
PatchIDs(ne, dfa) ==
    LET ids == StateIDs(ne, dfa.trans.sparse, DEAD)
    IN  {ids[k] : k \in DOMAIN ids}
          \cup {ids[k] + PatchInner : k \in DOMAIN ids}
          \cup {Len(dfa.trans.sparse), Len(dfa.trans.sparse) + 1}
Patched(bytes, at, with) ==
    [k \in 1 .. Len(bytes) |->
        IF k > at /\ k <= at + Len(with) THEN with[k - at] ELSE bytes[k]]

SparseInit ==
    /\ \E dense \in SparseDenseDFAs, host \in Endians :
          sdfa = [pc |-> "dense", dense |-> dense, host |-> host]
    /\ prog = Program_a_ab_ab
    /\ one = NoOnePass
    /\ det = NoDeterminizer
    /\ ov = NoOverlapping
    /\ inert = InertDFA_new(DefaultConfig)
    /\ cache = Cache_empty
    /\ srch = Idle
    /\ ref = [c |-> cache, s |-> Idle]
    /\ last = NoOp
    /\ meta = MetaIdle(None)
    /\ it = NoIter

SparseUnchanged == UNCHANGED <<inert, cache, srch, ref, last, meta, it, prog, ov, det, one>>

\* DFA::from_dense on the host.
SparseFromDense ==
    /\ sdfa.pc = "dense"
    /\ sdfa' = [pc |-> "sparse", host |-> sdfa.host, dfa |-> from_dense(sdfa.host, sdfa.dense)]
    /\ SparseUnchanged

\* DFA::to_bytes_little_endian, to_bytes_big_endian, to_bytes_native_endian.
SparseToBytes(E) ==
    /\ sdfa.pc = "sparse"
    /\ sdfa' = [pc |-> "bytes", host |-> sdfa.host, dfa |-> sdfa.dfa, E |-> E,
                buf |-> DFA_write_to(E, sdfa.dfa), patched |-> 0]
    /\ SparseUnchanged

\* The bytes are not what was written: one state ID is another.
SparseCorrupt ==
    /\ sdfa.pc = "bytes"
    /\ sdfa.patched < MaxPatches
    /\ \E at \in PatchFields(sdfa.host, sdfa.dfa), id \in PatchIDs(sdfa.host, sdfa.dfa) :
          sdfa' = [sdfa EXCEPT !.buf = Patched(sdfa.buf, at, u32_to_bytes(sdfa.E, id)),
                               !.patched = sdfa.patched + 1]
    /\ SparseUnchanged

\* DFA::from_bytes on a target of the format's endianness.
SparseFromBytes ==
    /\ sdfa.pc = "bytes"
    /\ sdfa' = [pc |-> "read", host |-> sdfa.host, dfa |-> sdfa.dfa, E |-> sdfa.E,
                buf |-> sdfa.buf, patched |-> sdfa.patched, target |-> sdfa.E,
                out |-> DFA_from_bytes(sdfa.E, sdfa.buf)]
    /\ SparseUnchanged

\* DFA::from_bytes on a target of the other endianness.
SparseFromBytesElsewhere ==
    /\ sdfa.pc = "bytes"
    /\ sdfa.patched = 0
    /\ \E target \in Endians \ {sdfa.E} :
          sdfa' = [pc |-> "read", host |-> sdfa.host, dfa |-> sdfa.dfa, E |-> sdfa.E,
                   buf |-> sdfa.buf, patched |-> sdfa.patched, target |-> target,
                   out |-> DFA_from_bytes(target, sdfa.buf)]
    /\ SparseUnchanged

\* A search of the haystack with the DFA that was written, on the host, and
\* with the DFA that was read, on the target.
SparseSearch(hay) ==
    /\ sdfa.pc = "read"
    /\ sdfa.out.ok
    /\ sdfa' = [pc |-> "searched", host |-> sdfa.host, dfa |-> sdfa.dfa, E |-> sdfa.E,
                buf |-> sdfa.buf, patched |-> sdfa.patched, target |-> sdfa.target,
                out |-> sdfa.out, hay |-> hay,
                given |-> Sparse_find_fwd(sdfa.host, sdfa.dfa, hay),
                found |-> Sparse_find_fwd(sdfa.target, sdfa.out.v, hay)]
    /\ SparseUnchanged

SparseNext ==
    \/ SparseFromDense
    \/ \E E \in Endians : SparseToBytes(E)
    \/ SparseCorrupt
    \/ SparseFromBytes
    \/ SparseFromBytesElsewhere
    \/ \E hay \in SparseHays : SparseSearch(hay)

SpecSparse == SparseInit /\ [][SparseNext]_vars

(***************************************************************************)
(* Properties of the sparse DFA's bytes                                    *)
(***************************************************************************)
Written == sdfa.pc \in {"read", "searched"} /\ sdfa.patched = 0 /\ sdfa.target = sdfa.E
SameDFA == DFAOn(sdfa.target, sdfa.out.v) = DFAOn(sdfa.host, sdfa.dfa)

\* C31: what DFA::from_bytes makes of the bytes DFA::write_to wrote of a
\* sparse DFA, in the endianness of the target that reads them, is no error
\* but a DFA of the same states, transitions, start states, pattern IDs and
\* special states, and every search with it finds what the search with the
\* written DFA finds.
C31_RoundTrip ==
    Written =>
      /\ sdfa.out.ok
      /\ SameDFA
      /\ sdfa.pc = "searched" => sdfa.found = sdfa.given

\* Written and read on one target, a search of `aa` has found a match.
C31_Witness ==
    /\ Written
    /\ sdfa.host = sdfa.target
    /\ sdfa.pc = "searched"
    /\ sdfa.hay = <<Byte_a, Byte_a>>
    /\ sdfa.found = sdfa.given
    /\ sdfa.found = HalfMatch(0, 2)

\* Written on a host of the other endianness, the bytes are an error.
C31_WrittenElsewhere ==
    /\ Written
    /\ sdfa.pc = "read"
    /\ sdfa.host # sdfa.target
    /\ ~sdfa.out.ok

\* The same, of a DFA written and read on one target.
C31_RoundTripAtHome == (Written /\ sdfa.host = sdfa.target) => C31_RoundTrip

Decodes(ne, sparse, id) == ~Transitions_state(ne, sparse, id).panic
EveryStateDecodes(ne, trans) ==
    LET ids == StateIDs(ne, trans.sparse, DEAD)
    IN  /\ Len(ids) = trans.len
        /\ ids # <<>>
        /\ ids[Len(ids)]
             + State_bytes_len(Transitions_state(ne, trans.sparse, ids[Len(ids)]))
             = Len(trans.sparse)
EveryNextDecodes(ne, trans) ==
    LET ids == StateIDs(ne, trans.sparse, DEAD)
    IN  \A k \in DOMAIN ids :
          LET state == Transitions_state(ne, trans.sparse, ids[k])
          IN  \A i \in 0 .. (state.ntrans - 1) :
                Decodes(ne, trans.sparse, State_next_at(ne, state, i))
EveryStartDecodes(ne, dfa) ==
    \A k \in DOMAIN StartIDs(ne, dfa.starts) :
      Decodes(ne, dfa.trans.sparse, StartIDs(ne, dfa.starts)[k])

\* C32: when DFA::from_bytes returns a DFA, the states decode one after the
\* other to the end of the sparse bytes and are as many as declared, a state
\* decodes at every next state ID of every state, the one on EOI too, and at
\* every start state ID.
C32_ReadDecodes ==
    (sdfa.pc \in {"read", "searched"} /\ sdfa.out.ok) =>
      /\ EveryStateDecodes(sdfa.target, sdfa.out.v.trans)
      /\ EveryNextDecodes(sdfa.target, sdfa.out.v.trans)
      /\ EveryStartDecodes(sdfa.target, sdfa.out.v)

\* Bytes with two state IDs replaced were read as a DFA, and in its last
\* state the next state on EOI is the end of the sparse bytes.
C32_Witness ==
    /\ sdfa.pc = "read"
    /\ sdfa.patched = MaxPatches
    /\ sdfa.out.ok
    /\ EveryStateDecodes(sdfa.target, sdfa.out.v.trans)
    /\ LET ids == StateIDs(sdfa.target, sdfa.out.v.trans.sparse, DEAD)
       IN  State_next_eoi(sdfa.target,
                          Transitions_state(sdfa.target, sdfa.out.v.trans.sparse,
                                            ids[Len(ids)]))
             = Len(sdfa.out.v.trans.sparse)

\* A search with such a DFA panics.
C32_SearchPanics ==
    /\ sdfa.pc = "searched"
    /\ sdfa.found = Panicked

\* Bytes with a start state ID that is the end of the sparse bytes are an
\* error.
C32_StartRejected ==
    /\ sdfa.pc = "read"
    /\ sdfa.patched = 1
    /\ \E k \in 0 .. (StartCount - 1) :
          read_u32(sdfa.target, sdfa.buf,
                   SparseAt + Len(sdfa.dfa.trans.sparse) + 2 * U32_SIZE + k * StateID_SIZE)
            = Len(sdfa.dfa.trans.sparse)
    /\ ~sdfa.out.ok

\* What is true of the next state IDs of a DFA that was read: each is at
\* most the length of the sparse bytes.
C32_NextInBounds ==
    (sdfa.pc \in {"read", "searched"} /\ sdfa.out.ok) =>
      LET ids == StateIDs(sdfa.target, sdfa.out.v.trans.sparse, DEAD)
      IN  \A k \in DOMAIN ids :
            LET state == Transitions_state(sdfa.target, sdfa.out.v.trans.sparse, ids[k])
            IN  \A i \in 0 .. (state.ntrans - 1) :
                  State_next_at(sdfa.target, state, i) <= Len(sdfa.out.v.trans.sparse)
====
